---- MODULE Spec2Model ----
(***************************************************************************)
(* Drag-to-reorder demo pages: the Fabric.js grid page (FabricGridPage,    *)
(* src/src/app/fabric/page.tsx 1-880), the Fabric.js palette page          *)
(* (FabricPage, same file 882-1366) and the sort page (SortPage,           *)
(* src/unnamed/part_003).                                                  *)
(*                                                                         *)
(* Indices are 0-based as in the source; TLA+ sequences are 1-based, so    *)
(* arr[i] of the source is arr[i + 1] here.  Every browser event runs its  *)
(* handlers to completion with the state of the last render, and React     *)
(* has re-rendered before the next browser event is delivered.             *)
(***************************************************************************)
EXTENDS Integers, Sequences, FiniteSets, TLC

(***************************************************************************)
(* Program constants of the grid page.                                     *)
(***************************************************************************)
PADDING == 20
SQUARE_WIDTH == 80
CANVAS_WIDTH == 800
CANVAS_HEIGHT == 400

(***************************************************************************)
(* Bounds of the model.                                                    *)
(***************************************************************************)
\* most squares the grid canvas holds before further palette drops are cut off
MaxSquares == 5
\* most palette drops that add a square (each takes a later Date.now())
MaxDrops == 1

(***************************************************************************)
(* JavaScript helpers.                                                     *)
(***************************************************************************)
Min(a, b) == IF a < b THEN a ELSE b

Max(a, b) == IF a > b THEN a ELSE b

\* Math.floor(num / den + 0.5) for integers num and den > 0
FloorPlusHalf(num, den) == (2 * num + den) \div (2 * den)

\* Array.prototype.findIndex(s => s.id === x): first 0-based index, or -1
findIndex(arr, x) ==
    IF \E i \in 1..Len(arr) : arr[i] = x
    THEN (CHOOSE i \in 1..Len(arr) :
              arr[i] = x /\ \A j \in 1..(i - 1) : arr[j] # x) - 1
    ELSE -1

\* the start index Array.prototype.splice really uses
spliceStart(arr, start) ==
    IF start < 0 THEN Max(Len(arr) + start, 0) ELSE Min(start, Len(arr))

\* arr.splice(start, 1): the array after the call
spliceRemove(arr, start) ==
    LET s == spliceStart(arr, start) IN
    [i \in 1..(Len(arr) - (IF s < Len(arr) THEN 1 ELSE 0)) |->
        IF i <= s THEN arr[i] ELSE arr[i + 1]]

\* arr.splice(start, 0, x): the array after the call
spliceInsert(arr, start, x) ==
    LET s == spliceStart(arr, start) IN
    [i \in 1..(Len(arr) + 1) |->
        IF i <= s THEN arr[i] ELSE IF i = s + 1 THEN x ELSE arr[i - 1]]

\* the items of an array
elements(arr) == {arr[i] : i \in 1..Len(arr)}

\* newSquares.forEach((square, index) => { square.position = index })
renumber(arr) ==
    [id \in elements(arr) |-> findIndex(arr, id)]

(***************************************************************************)
(* GRID PAGE (FabricGridPage).                                             *)
(*                                                                         *)
(* The selection highlight (selectedSquare, the rectangles' stroke and      *)
(* opacity) is display state that no drag handler reads; it is left out.   *)
(* A CanvasSquare object is named by its id; its mutable field `position`  *)
(* is the function position[id], shared by every array that holds the      *)
(* object.  canvasSquares is the array of the objects' ids.  The preset    *)
(* squares have ids <<0, "1">> .. <<0, "4">>; a dropped square has the id  *)
(* <<Date.now(), source id>>.                                              *)
(***************************************************************************)
VARIABLES
    canvasSquares,        \* useState<CanvasSquare[]>
    position,             \* CanvasSquare.position of every square in canvasSquares
    isDragging,           \* useState(false)
    draggedSquare,        \* useState<CanvasSquare | null>
    isExternalDragging,   \* useState(false)
    draggedSourceSquare,  \* useState<DragSourceSquare | null>
    dragOverIndex,        \* useState<number>(-1)
    mouseDownPosition,    \* useState<{x, y} | null>: TRUE when a point is recorded
    hasMoved,             \* useState(false)
    gesture,              \* where the pointer gesture stands (the browser's event order)
    objLeft,              \* e.target.left of the rectangle under the pointer
    pointerInCanvas,      \* whether the last pointer event lay inside the canvas
    startSquares,         \* canvasSquares when the running gesture began
    now,                  \* Date.now(), counted in drops
    restLeft,             \* for every rectangle on the canvas, the left it rests at
                          \* once the animations now running on it have run
    animating,            \* whether a 300 ms rearrangement may still be running
    rearrangeTimers,      \* the arrays held by the pending setTimeout(..., 50)
                          \* callbacks of addSquareToCanvas, oldest first
    canvasObjects         \* how many rectangles canvas.add has put on the
                          \* Fabric canvas and canvas.clear has not taken off

gridVars == <<canvasSquares, position, isDragging, draggedSquare,
              isExternalDragging, draggedSourceSquare, dragOverIndex,
              mouseDownPosition, hasMoved, gesture, objLeft,
              pointerInCanvas, startSquares, now>>

rectVars == <<restLeft, animating, rearrangeTimers, canvasObjects>>

\* null of a CanvasSquare reference
Null == <<>>

\* null of a DragSourceSquare reference
NoSource == "null"

squareConfigs == << <<0, "1">>, <<0, "2">>, <<0, "3">>, <<0, "4">> >>

dragSourceSquares == {"source-1", "source-2"}

\* canvasRef.current.getBoundingClientRect(): where the layout puts the canvas
canvasRect == [left |-> 300, top |-> 150]

\* x the pointer can give the dragged rectangle before the handler clamps it
DragLefts == {-100, 0, 259, 260, 410, 900}

\* clientX, clientY of the drag-over and drop events of a palette drag
ClientXs == {canvasRect.left + d : d \in {-1, 0, 159, 160, 400, 800, 801}}

ClientYs == {canvasRect.top + d : d \in {-1, 200, 401}}

getVerticalCenterPosition == (CANVAS_HEIGHT - SQUARE_WIDTH) \div 2

\* startX of the centred row; count * size + (count - 1) * spacing is even for
\* the only size in use (80), so the halving is exact
startX(size, count) ==
    (CANVAS_WIDTH - (count * size + (count - 1) * PADDING)) \div 2

calculateSquarePosition(index, size, count) ==
    startX(size, count) + index * (size + PADDING)

\* variant of calculateTargetIndex that forgets the upper clamp
calculateTargetIndexNoUpperClamp(currentX, size, count) ==
    LET relativeX == (currentX + size \div 2) - (startX(size, count) + size \div 2)
    IN  Max(0, FloorPlusHalf(relativeX, size + PADDING))

\* variant of calculateTargetIndex that takes the floor instead of rounding
calculateTargetIndexFloor(currentX, size, count) ==
    LET relativeX == (currentX + size \div 2) - (startX(size, count) + size \div 2)
    IN  Max(0, Min(count - 1, relativeX \div (size + PADDING)))

calculateTargetIndex(currentX, size, count) ==
    LET draggedCenterX == currentX + size \div 2
        relativeX == draggedCenterX - (startX(size, count) + size \div 2)
        index == FloorPlusHalf(relativeX, size + PADDING)
    IN  Max(0, Min(count - 1, index))

\* whether the point lies on the canvas element (CANVAS_WIDTH x CANVAS_HEIGHT)
onCanvas(clientX, clientY) ==
    /\ clientX - canvasRect.left \in 0..CANVAS_WIDTH
    /\ clientY - canvasRect.top \in 0..CANVAS_HEIGHT

\* variant of calculateInsertIndex that measures from the first slot's centre,
\* as calculateTargetIndex does
calculateInsertIndexCentre(mouseX, mouseY, size, n) ==
    LET canvasX == mouseX - canvasRect.left
        canvasY == mouseY - canvasRect.top
        relativeX == canvasX - startX(size, n + 1) - size \div 2
    IN  IF canvasX < 0 \/ canvasX > CANVAS_WIDTH
           \/ canvasY < 0 \/ canvasY > CANVAS_HEIGHT
        THEN -1
        ELSE Max(0, Min(n, FloorPlusHalf(relativeX, size + PADDING)))

\* variant of calculateInsertIndex that forgets the lower clamp
calculateInsertIndexNoLowerClamp(mouseX, mouseY, size, n) ==
    LET canvasX == mouseX - canvasRect.left
        canvasY == mouseY - canvasRect.top
        relativeX == canvasX - startX(size, n + 1)
    IN  IF canvasX < 0 \/ canvasX > CANVAS_WIDTH
           \/ canvasY < 0 \/ canvasY > CANVAS_HEIGHT
        THEN -1
        ELSE Min(n, FloorPlusHalf(relativeX, size + PADDING))

\* variant of calculateInsertIndex without the -1 of a cursor off the canvas
calculateInsertIndexNoSentinel(mouseX, mouseY, size, n) ==
    LET relativeX == (mouseX - canvasRect.left) - startX(size, n + 1)
    IN  Max(0, Min(n, FloorPlusHalf(relativeX, size + PADDING)))

\* n is canvasSquares.length of the render the handler closes over
calculateInsertIndex(mouseX, mouseY, size, n) ==
    LET canvasX == mouseX - canvasRect.left
        canvasY == mouseY - canvasRect.top
        relativeX == canvasX - startX(size, n + 1)
        index == FloorPlusHalf(relativeX, size + PADDING)
    IN  IF canvasX < 0 \/ canvasX > CANVAS_WIDTH
           \/ canvasY < 0 \/ canvasY > CANVAS_HEIGHT
        THEN -1
        ELSE Max(0, Min(n, index))

\* variant of updateSquareOrder without the test currentIndex !== targetIndex
updateSquareOrderAlways(squares, pos, dragged, targetIndex) ==
    LET currentIndex == findIndex(squares, dragged)
        newSquares == spliceInsert(spliceRemove(squares, currentIndex),
                                   targetIndex, dragged)
    IN  IF currentIndex # -1
        THEN [squares |-> newSquares, position |-> renumber(newSquares),
              set |-> TRUE]
        ELSE [squares |-> squares, position |-> pos, set |-> FALSE]

\* variant of updateSquareOrder that decrements a targetIndex beyond the
\* removal index (the splice adjustment)
updateSquareOrderDecrement(squares, pos, dragged, targetIndex) ==
    LET currentIndex == findIndex(squares, dragged)
        adjusted == IF targetIndex > currentIndex THEN targetIndex - 1
                    ELSE targetIndex
        newSquares == spliceInsert(spliceRemove(squares, currentIndex),
                                   adjusted, dragged)
    IN  IF currentIndex # -1 /\ currentIndex # targetIndex
        THEN [squares |-> newSquares, position |-> renumber(newSquares),
              set |-> TRUE]
        ELSE [squares |-> squares, position |-> pos, set |-> FALSE]

\* the array updateSquareOrder returns, the position fields it leaves, and
\* whether it called setCanvasSquares
updateSquareOrder(squares, pos, dragged, targetIndex) ==
    LET currentIndex == findIndex(squares, dragged)
        newSquares == spliceInsert(spliceRemove(squares, currentIndex),
                                   targetIndex, dragged)
    IN  IF currentIndex # -1 /\ currentIndex # targetIndex
        THEN [squares |-> newSquares, position |-> renumber(newSquares),
              set |-> TRUE]
        ELSE [squares |-> squares, position |-> pos, set |-> FALSE]

\* variant of addSquareToCanvas that numbers the new square only
addSquareToCanvasNoRenumber(squares, newId, insertIndex) ==
    LET newSquares == spliceInsert(squares, insertIndex, newId)
    IN  [squares |-> newSquares,
         position |-> [id \in elements(newSquares) |->
                          IF id = newId THEN spliceStart(squares, insertIndex)
                          ELSE position[id]]]

\* variant of updateSquarePositionsRealtime that leaves the square at
\* targetIndex where it is when the drag goes to the right
updateSquarePositionsRealtimeStrict(squares, pos, targetIndex, dragged) ==
    LET originalIndex == pos[dragged]
        newIndex(currentIndex) ==
            IF originalIndex < targetIndex
            THEN IF currentIndex > originalIndex /\ currentIndex < targetIndex
                 THEN currentIndex - 1 ELSE currentIndex
            ELSE IF originalIndex > targetIndex
            THEN IF currentIndex >= targetIndex /\ currentIndex < originalIndex
                 THEN currentIndex + 1 ELSE currentIndex
            ELSE currentIndex
    IN  [id \in elements(squares) \ {dragged} |-> newIndex(findIndex(squares, id))]

\* the slot index (newIndex) updateSquarePositionsRealtime gives each square
\* other than the dragged one; the square is animated to
\* calculateSquarePosition(newIndex, size)
updateSquarePositionsRealtime(squares, pos, targetIndex, dragged) ==
    LET originalIndex == pos[dragged]
        newIndex(currentIndex) ==
            IF originalIndex < targetIndex
            THEN IF currentIndex > originalIndex /\ currentIndex <= targetIndex
                 THEN currentIndex - 1 ELSE currentIndex
            ELSE IF originalIndex > targetIndex
            THEN IF currentIndex >= targetIndex /\ currentIndex < originalIndex
                 THEN currentIndex + 1 ELSE currentIndex
            ELSE currentIndex
    IN  [id \in elements(squares) \ {dragged} |-> newIndex(findIndex(squares, id))]

\* the array addSquareToCanvas hands to setCanvasSquares and the position fields
addSquareToCanvas(squares, newId, insertIndex) ==
    LET newSquares == spliceInsert(squares, insertIndex, newId)
    IN  [squares |-> newSquares, position |-> renumber(newSquares)]

\* the array initializeSquares hands to setCanvasSquares and the position fields
initializeSquares ==
    [squares |-> squareConfigs,
     position |-> [id \in {squareConfigs[i] : i \in 1..Len(squareConfigs)} |->
                      findIndex(squareConfigs, id)]]

\* the left rearrangeSquares(animated, squares) sends each square of squares to
rearrangeSquares(squares) ==
    [id \in elements(squares) |->
        calculateSquarePosition(findIndex(squares, id), SQUARE_WIDTH, Len(squares))]

\* the left updateSquarePositionsRealtime animates each other square to
previewLefts(squares, pos, targetIndex, dragged) ==
    LET slots == updateSquarePositionsRealtime(squares, pos, targetIndex, dragged)
    IN  [id \in DOMAIN slots |->
            calculateSquarePosition(slots[id], SQUARE_WIDTH, Len(squares))]

\* the left makeSpaceForExternalDrag animates each square to
makeSpaceForExternalDrag(squares, insertIndex) ==
    [id \in elements(squares) |->
        LET currentIndex == findIndex(squares, id)
            newIndex == IF currentIndex >= insertIndex THEN currentIndex + 1
                        ELSE currentIndex
        IN  calculateSquarePosition(newIndex, SQUARE_WIDTH, Len(squares) + 1)]

\* rest with the rectangles of targets sent to their targets.  Of two
\* animations running on one rectangle the one that ends last leaves its end
\* value; a 300 ms animation started after another one always ends after it.
animateTo(rest, targets) ==
    [id \in DOMAIN rest |-> IF id \in DOMAIN targets THEN targets[id] ELSE rest[id]]

\* the rectangles initializeSquares puts on the canvas
RectInit ==
    /\ restLeft = rearrangeSquares(initializeSquares.squares)
    /\ canvasObjects = Len(initializeSquares.squares)
    /\ animating = FALSE
    /\ rearrangeTimers = <<>>

GridInit ==
    /\ canvasSquares = initializeSquares.squares
    /\ position = initializeSquares.position
    /\ isDragging = FALSE
    /\ draggedSquare = Null
    /\ isExternalDragging = FALSE
    /\ draggedSourceSquare = NoSource
    /\ dragOverIndex = -1
    /\ mouseDownPosition = FALSE
    /\ hasMoved = FALSE
    /\ gesture = "none"
    /\ objLeft = 0
    /\ pointerInCanvas = TRUE
    /\ startSquares = <<>>
    /\ now = 0

\* mouse:down on the canvas; target is the rectangle hit, Null on a blank area
handleMouseDown(target) ==
    /\ gesture = "none"
    /\ gesture' = "mouse"
    /\ mouseDownPosition' = TRUE
    /\ hasMoved' = FALSE
    /\ draggedSquare' = IF target # Null THEN target ELSE draggedSquare
    /\ pointerInCanvas' = TRUE
    /\ startSquares' = canvasSquares
    /\ UNCHANGED <<canvasSquares, position, isDragging, isExternalDragging,
                   draggedSourceSquare, dragOverIndex, objLeft, now>>

\* object:moving: Fabric has put the rectangle at left, the handler clamps it.
\* The preview (updateSquarePositionsRealtime) only animates the other
\* rectangles.
handleObjectMoving(left, inside) ==
    /\ gesture = "mouse"
    /\ draggedSquare # Null
    /\ inside => (left + SQUARE_WIDTH >= 0 /\ left <= CANVAS_WIDTH)
    /\ hasMoved' = TRUE
    /\ isDragging' = TRUE
    /\ objLeft' = Max(0, Min(CANVAS_WIDTH - SQUARE_WIDTH, left))
    /\ pointerInCanvas' = inside
    /\ UNCHANGED <<canvasSquares, position, draggedSquare, isExternalDragging,
                   draggedSourceSquare, dragOverIndex, mouseDownPosition, gesture, startSquares, now>>

\* object:modified: fired by Fabric on release when the rectangle was moved,
\* before mouse:up
handleObjectModified ==
    /\ gesture = "mouse"
    /\ hasMoved
    /\ draggedSquare # Null
    /\ LET targetIndex == calculateTargetIndex(objLeft, SQUARE_WIDTH,
                                               Len(canvasSquares))
           r == updateSquareOrder(canvasSquares, position, draggedSquare,
                                  targetIndex)
       IN  /\ canvasSquares' = r.squares
           /\ position' = r.position
    /\ gesture' = "modified"
    /\ UNCHANGED <<isDragging, draggedSquare, isExternalDragging,
                   draggedSourceSquare, dragOverIndex, mouseDownPosition, hasMoved, objLeft, pointerInCanvas,
                   startSquares, now>>

\* mouse:up, after object:modified when the rectangle was moved.  A click
\* (no move) goes to handleSquareSelection, which sets the highlight only.
handleMouseUp ==
    /\ \/ gesture = "modified"
       \/ gesture = "mouse" /\ ~hasMoved
    /\ isDragging' = FALSE
    /\ draggedSquare' = Null
    /\ mouseDownPosition' = FALSE
    /\ hasMoved' = FALSE
    /\ gesture' = "none"
    /\ objLeft' = 0
    /\ pointerInCanvas' = TRUE
    /\ startSquares' = <<>>
    /\ UNCHANGED <<canvasSquares, position, isExternalDragging,
                   draggedSourceSquare, dragOverIndex, now>>

\* dragstart on a palette entry
handleExternalDragStart(sourceSquare) ==
    /\ gesture = "none"
    /\ gesture' = "external"
    /\ isExternalDragging' = TRUE
    /\ draggedSourceSquare' = sourceSquare
    /\ startSquares' = canvasSquares
    /\ UNCHANGED <<canvasSquares, position, isDragging, draggedSquare,
                   dragOverIndex, mouseDownPosition, hasMoved,
                   objLeft, pointerInCanvas, now>>

\* the state handleExternalDragEnd sets; the rearrangement only animates
ExternalDragEndState ==
    /\ isExternalDragging' = FALSE
    /\ draggedSourceSquare' = NoSource
    /\ dragOverIndex' = -1

\* dragend on the palette entry: after the drop, or alone when the drag is
\* abandoned
handleExternalDragEnd ==
    /\ gesture \in {"external", "dropped"}
    /\ gesture' = "none"
    /\ ExternalDragEndState
    /\ pointerInCanvas' = TRUE
    /\ startSquares' = <<>>
    /\ UNCHANGED <<canvasSquares, position, isDragging, draggedSquare,
                   mouseDownPosition, hasMoved, objLeft, now>>

\* dragover on the document during a palette drag
handleExternalDragMove(clientX, clientY) ==
    /\ gesture = "external"
    /\ isExternalDragging /\ draggedSourceSquare # NoSource
    /\ LET insertIndex == calculateInsertIndex(clientX, clientY, SQUARE_WIDTH,
                                               Len(canvasSquares))
       IN  /\ dragOverIndex' = insertIndex
           /\ pointerInCanvas' = onCanvas(clientX, clientY)
    /\ UNCHANGED <<canvasSquares, position, isDragging, draggedSquare,
                   isExternalDragging, draggedSourceSquare, mouseDownPosition, hasMoved, gesture, objLeft, startSquares,
                   now>>

\* drop of a palette drag: handleExternalDrop, which ends with
\* handleExternalDragEnd()
handleExternalDrop(clientX, clientY) ==
    /\ gesture = "external"
    /\ isExternalDragging /\ draggedSourceSquare # NoSource
    /\ LET insertIndex == calculateInsertIndex(clientX, clientY, SQUARE_WIDTH,
                                               Len(canvasSquares))
           newId == <<now + 1, draggedSourceSquare>>
           r == addSquareToCanvas(canvasSquares, newId, insertIndex)
       IN  /\ pointerInCanvas' = onCanvas(clientX, clientY)
           /\ IF insertIndex >= 0
              THEN /\ Len(canvasSquares) < MaxSquares
                   /\ now < MaxDrops
                   /\ canvasSquares' = r.squares
                   /\ position' = r.position
                   /\ now' = now + 1
              ELSE UNCHANGED <<canvasSquares, position, now>>
    /\ ExternalDragEndState
    /\ gesture' = "dropped"
    /\ UNCHANGED <<isDragging, draggedSquare, mouseDownPosition, hasMoved, objLeft, startSquares>>

clearCanvas ==
    /\ gesture = "none"
    /\ isDragging' = FALSE
    /\ draggedSquare' = Null
    /\ mouseDownPosition' = FALSE
    /\ hasMoved' = FALSE
    /\ canvasSquares' = <<>>
    /\ position' = <<>>
    /\ UNCHANGED <<isExternalDragging, draggedSourceSquare, dragOverIndex,
                   gesture, objLeft, pointerInCanvas, startSquares, now>>

resetCanvas ==
    /\ gesture = "none"
    /\ isDragging' = FALSE
    /\ draggedSquare' = Null
    /\ mouseDownPosition' = FALSE
    /\ hasMoved' = FALSE
    /\ canvasSquares' = initializeSquares.squares
    /\ position' = initializeSquares.position
    /\ UNCHANGED <<isExternalDragging, draggedSourceSquare, dragOverIndex,
                   gesture, objLeft, pointerInCanvas, startSquares, now>>

(***************************************************************************)
(* GRID PAGE, the rectangles: what each handler does to the Fabric          *)
(* rectangles of the squares, and the timers it leaves.                    *)
(***************************************************************************)
\* what handleMouseDown does to the rectangles
handleMouseDownRects ==
    /\ UNCHANGED <<restLeft, animating, rearrangeTimers, canvasObjects>>

\* what handleObjectMoving does to the rectangles: the dragged one is set at
\* the clamped left and updateSquarePositionsRealtime animates the others for
\* 150 ms.  While a 300 ms rearrangement started less than 150 ms ago is
\* running, it outlasts the preview and the rectangles end where it sends them
\* (lands is FALSE).
handleObjectMovingRects(left, lands) ==
    /\ ~animating => lands
    /\ LET clamped == Max(0, Min(CANVAS_WIDTH - SQUARE_WIDTH, left))
           targetIndex == calculateTargetIndex(clamped, SQUARE_WIDTH,
                                               Len(canvasSquares))
           preview == previewLefts(canvasSquares, position, targetIndex,
                                   draggedSquare)
       IN  restLeft' =
               IF lands
               THEN [id \in DOMAIN restLeft |->
                        IF id = draggedSquare THEN clamped
                        ELSE animateTo(restLeft, preview)[id]]
               ELSE restLeft
    /\ animating' = (animating /\ ~lands)
    /\ UNCHANGED <<rearrangeTimers, canvasObjects>>

\* what handleObjectModified does to the rectangles
handleObjectModifiedRects ==
    /\ LET targetIndex == calculateTargetIndex(objLeft, SQUARE_WIDTH,
                                               Len(canvasSquares))
           r == updateSquareOrder(canvasSquares, position, draggedSquare,
                                  targetIndex)
       IN  restLeft' = animateTo(restLeft, rearrangeSquares(r.squares))
    /\ animating' = TRUE
    /\ UNCHANGED <<rearrangeTimers, canvasObjects>>

\* what handleMouseUp does to the rectangles
handleMouseUpRects ==
    /\ UNCHANGED <<restLeft, animating, rearrangeTimers, canvasObjects>>

\* what handleExternalDragStart does to the rectangles
handleExternalDragStartRects ==
    /\ UNCHANGED <<restLeft, animating, rearrangeTimers, canvasObjects>>

\* what handleExternalDragEnd does to the rectangles:
\* rearrangeSquares(true, canvasSquares)
handleExternalDragEndRects ==
    /\ restLeft' = animateTo(restLeft, rearrangeSquares(canvasSquares))
    /\ animating' = (animating \/ Len(canvasSquares) > 0)
    /\ UNCHANGED <<rearrangeTimers, canvasObjects>>

\* what handleExternalDragMove does to the rectangles: a new insertIndex on
\* the canvas starts the 150 ms preview of makeSpaceForExternalDrag (lands as
\* in handleObjectMoving), a new insertIndex off the canvas a rearrangement
handleExternalDragMoveRects(clientX, clientY, lands) ==
    /\ LET insertIndex == calculateInsertIndex(clientX, clientY, SQUARE_WIDTH,
                                               Len(canvasSquares))
           previews == insertIndex # dragOverIndex /\ insertIndex >= 0
       IN  /\ (~previews \/ ~animating) => lands
           /\ IF insertIndex = dragOverIndex
              THEN UNCHANGED <<restLeft, animating>>
              ELSE IF insertIndex >= 0
              THEN /\ restLeft' =
                          IF lands
                          THEN animateTo(restLeft,
                                         makeSpaceForExternalDrag(canvasSquares,
                                                                  insertIndex))
                          ELSE restLeft
                   /\ animating' = (animating /\ ~lands)
              ELSE /\ restLeft' = animateTo(restLeft,
                                            rearrangeSquares(canvasSquares))
                   /\ animating' = (animating \/ Len(canvasSquares) > 0)
    /\ UNCHANGED <<rearrangeTimers, canvasObjects>>

\* variant: the document's listener of before the drop stays registered and
\* runs as well
documentDropListenerKept(canvasOnDropRan) == TRUE

\* Whether the document's drop listener (the effect of lines 692-711) runs
\* for a drop.  When the event passes the canvas element first, its onDrop
\* runs handleExternalDrop, which ends with setIsExternalDragging(false); the
\* render of that state is committed while the event is being dispatched,
\* the effect's cleanup removes the document's listener and, with
\* isExternalDragging false, none is added anew.  Otherwise the listener is
\* the one that handles the drop.
documentDropListenerRuns(canvasOnDropRan) == ~canvasOnDropRan

\* what handleExternalDrop does to the rectangles: addSquareToCanvas puts the
\* new rectangle at its slot of the longer row and leaves a timer holding
\* newSquares; the handleExternalDragEnd of this render rearranges the
\* canvasSquares of before the drop.  viaCanvas: the event passes the canvas
\* element's onDrop on its way to the document.
handleExternalDropRects(clientX, clientY, viaCanvas) ==
    /\ viaCanvas => onCanvas(clientX, clientY)
    /\ LET insertIndex == calculateInsertIndex(clientX, clientY, SQUARE_WIDTH,
                                               Len(canvasSquares))
           newId == <<now + 1, draggedSourceSquare>>
           r == addSquareToCanvas(canvasSquares, newId, insertIndex)
           xPosition == calculateSquarePosition(insertIndex, SQUARE_WIDTH,
                                                Len(canvasSquares) + 1)
           added == [id \in DOMAIN restLeft \cup {newId} |->
                        IF id = newId THEN xPosition ELSE restLeft[id]]
           \* runs of handleExternalDrop, all in the render of before the drop
           runs == (IF viaCanvas THEN 1 ELSE 0)
                   + (IF documentDropListenerRuns(viaCanvas) THEN 1 ELSE 0)
       IN  IF insertIndex >= 0
           THEN /\ restLeft' = animateTo(added, rearrangeSquares(canvasSquares))
                /\ rearrangeTimers' =
                       IF runs = 2
                       THEN Append(Append(rearrangeTimers, r.squares), r.squares)
                       ELSE Append(rearrangeTimers, r.squares)
                /\ canvasObjects' = canvasObjects + runs
           ELSE /\ restLeft' = animateTo(restLeft, rearrangeSquares(canvasSquares))
                /\ UNCHANGED <<rearrangeTimers, canvasObjects>>
    /\ animating' = (animating \/ Len(canvasSquares) > 0)

\* what clearCanvas does to the rectangles: all are taken off the canvas, and
\* so are the rectangles the pending timers hold
clearCanvasRects ==
    /\ restLeft' = <<>>
    /\ canvasObjects' = 0
    /\ animating' = FALSE
    /\ rearrangeTimers' = [i \in 1..Len(rearrangeTimers) |-> <<>>]

\* what resetCanvas does to the rectangles: the squares of initializeSquares
\* are new objects with new rectangles, the old ones are off the canvas
resetCanvasRects ==
    /\ restLeft' = rearrangeSquares(initializeSquares.squares)
    /\ canvasObjects' = Len(initializeSquares.squares)
    /\ animating' = FALSE
    /\ rearrangeTimers' = [i \in 1..Len(rearrangeTimers) |-> <<>>]

\* the callback of addSquareToCanvas's setTimeout(..., 50):
\* rearrangeSquares(true, newSquares), newSquares as the drop left them
rearrangeTimeout ==
    /\ rearrangeTimers # <<>>
    /\ restLeft' = animateTo(restLeft, rearrangeSquares(Head(rearrangeTimers)))
    /\ animating' = (animating \/ Len(Head(rearrangeTimers)) > 0)
    /\ rearrangeTimers' = Tail(rearrangeTimers)
    /\ UNCHANGED <<gridVars, canvasObjects>>

\* the running animations come to their end
animationsEnd ==
    /\ animating
    /\ animating' = FALSE
    /\ UNCHANGED <<gridVars, restLeft, rearrangeTimers, canvasObjects>>

(***************************************************************************)
(* SORT PAGE (SortPage).  The item with id `left-k` is the number k.       *)
(***************************************************************************)
VARIABLES
    leftItems,          \* useState<SquareItem[]>
    rightItems,         \* useState<SquareItem[]>
    dragState,          \* useState<DragState>
    isAnimating,        \* useState(false)
    isAreaAnimating,    \* useState(false)
    itemPositions,      \* useState<Record<string, number>>
    sortDragOverIndex,  \* useState<number | null>, the sort page's dragOverIndex
    insertPosition,     \* useState<number | null>
    draggingItem,       \* useState<SquareItem | null>
    sortGesture,        \* where the drag-and-drop gesture stands
    pendingTimers       \* setTimeout callbacks of handleDrop not yet run

sortVars == <<leftItems, rightItems, dragState, isAnimating, isAreaAnimating,
              itemPositions, sortDragOverIndex, insertPosition, draggingItem,
              sortGesture, pendingTimers>>

\* the first MaxDragged items of the left list are the ones the user drags
MaxDragged == 3
\* most setTimeout callbacks pending at once
MaxTimers == 1

\* null of an index (number | null) and of an item (SquareItem | null)
NoIndex == -1

NoItem == -1

\* COLORS.map((item, index) => ({ id: `left-${index}`, ... }))
COLORS == <<0, 1, 2, 3, 4, 5, 6, 7>>

\* the initial DragState, also what every handler resets it to
noDrag == [draggedItem |-> NoItem, draggedOverId |-> NoItem, sourceArea |-> "left"]

\* rightAreaRef.current.getBoundingClientRect(): where the layout puts the area
rightAreaRect == [left |-> 600, width |-> 500]

\* rect.width of a right-area element (w-16)
elementWidth == 64

\* clientX of drag-over and drop events over the right area
AreaClientXs == {rightAreaRect.left + d : d \in {0, 100, 101, 125, 250, 400}}

\* e.clientX - rect.left over a right-area element
ElementXs == {21, 22}

\* variant of the filter that removes nothing
filterOutNothing(arr, x) == arr

\* prev.filter(item => item.id !== x)
filterOut(arr, x) ==
    LET F[i \in 0..Len(arr)] ==
            IF i = 0 THEN <<>>
            ELSE IF arr[i] = x THEN F[i - 1] ELSE Append(F[i - 1], arr[i])
    IN  F[Len(arr)]

\* insertAt of handleDragOver over an element
elementInsertAt(x, width, targetIndex) ==
    IF 100 * x < 33 * width THEN targetIndex ELSE targetIndex + 1

\* insertAt of handleDragOver over the area itself: the loop over the element
\* centres (element width 80, spacing 16)
areaInsertAt(x, containerWidth, n) ==
    LET totalItemWidth == 80 + 16
        totalElementsWidth == n * totalItemWidth - 16
        \* twice elementCenter, so that the halved startX stays exact
        elementCenter2(i) ==
            (containerWidth - totalElementsWidth) + 2 * i * totalItemWidth - 16
        hits == {i \in 0..n : 2 * x <= elementCenter2(i)}
    IN  IF n = 0 THEN 0
        ELSE IF hits = {} THEN n
        ELSE CHOOSE i \in hits : \A j \in hits : i <= j

\* insertIndex of handleDrop on the area itself, before it is clamped
areaDropIndex(mouseX, width, n) ==
    IF n = 0 THEN 0
    ELSE IF 10 * mouseX <= 2 * width THEN 0
    ELSE IF 10 * mouseX >= 8 * width THEN n
    ELSE FloorPlusHalf(mouseX * n, width)

\* variant that also takes the index before the item's own for a no-op
shouldReorderNeighbours(right, draggedItem, sourceArea, insertIndex) ==
    LET currentIndex == findIndex(right, draggedItem)
    IN  ~(/\ sourceArea = "right"
          /\ \/ currentIndex = insertIndex
             \/ currentIndex = insertIndex - 1 /\ insertIndex > 0
             \/ currentIndex = insertIndex + 1)

\* shouldReorder of handleDrop
shouldReorder(right, draggedItem, sourceArea, insertIndex) ==
    LET currentIndex == findIndex(right, draggedItem)
    IN  ~(/\ sourceArea = "right"
          /\ \/ currentIndex = insertIndex
             \/ currentIndex = insertIndex - 1 /\ insertIndex > 0)

\* newItemPositions of handleDrop
newItemPositions(right, draggedItem, sourceArea, insertIndex) ==
    LET currentIndex == findIndex(right, draggedItem)
        keys == IF sourceArea = "right" /\ currentIndex = -1
                THEN {draggedItem}
                ELSE elements(right) \cup {draggedItem}
        at(id) ==
            LET idx == findIndex(right, id) IN
            IF sourceArea = "right"
            THEN IF idx < currentIndex /\ idx >= insertIndex THEN idx + 1
                 ELSE IF idx > currentIndex /\ idx <= insertIndex THEN idx - 1
                 ELSE idx
            ELSE IF idx >= insertIndex THEN idx + 1 ELSE idx
    IN  [id \in keys |-> IF id = draggedItem THEN insertIndex ELSE at(id)]

\* the updater of setRightItems for a drop from the left list
insertFromLeft(prev, draggedItem, insertIndex) ==
    spliceInsert(prev, insertIndex, draggedItem)

\* variant of the right-area reorder without the splice adjustment
reorderRightNoDecrement(prev, draggedItem, currentIndex, insertIndex) ==
    spliceInsert(spliceRemove(prev, currentIndex), insertIndex, draggedItem)

\* the updater of setRightItems for a reorder within the right area
reorderRight(prev, draggedItem, currentIndex, insertIndex) ==
    LET removed == spliceRemove(prev, currentIndex)
        adjustedInsertIndex ==
            IF currentIndex < insertIndex THEN insertIndex - 1 ELSE insertIndex
    IN  spliceInsert(removed, adjustedInsertIndex, draggedItem)

\* rightItems once handleDrop has run with the raw index insertIndex
dropRightItems(right, draggedItem, sourceArea, insertIndex) ==
    LET clamped == Max(0, Min(insertIndex, Len(right)))
        currentIndex == findIndex(right, draggedItem)
    IN  IF ~shouldReorder(right, draggedItem, sourceArea, clamped) THEN right
        ELSE IF sourceArea = "left"
        THEN insertFromLeft(right, draggedItem, clamped)
        ELSE IF currentIndex = -1 THEN right
        ELSE reorderRight(right, draggedItem, currentIndex, clamped)

SortInit ==
    /\ leftItems = COLORS
    /\ rightItems = <<>>
    /\ dragState = noDrag
    /\ isAnimating = FALSE
    /\ isAreaAnimating = FALSE
    /\ itemPositions = <<>>
    /\ sortDragOverIndex = NoIndex
    /\ insertPosition = NoIndex
    /\ draggingItem = NoItem
    /\ sortGesture = "none"
    /\ pendingTimers = 0

\* dragstart on an item of the left list or of the right area
handleDragStart(item, sourceArea) ==
    /\ sortGesture = "none"
    /\ item \in elements(IF sourceArea = "left" THEN leftItems ELSE rightItems)
    /\ sortGesture' = "dragging"
    /\ dragState' = [draggedItem |-> item, draggedOverId |-> NoItem,
                     sourceArea |-> sourceArea]
    /\ draggingItem' = item
    /\ UNCHANGED <<leftItems, rightItems, isAnimating, isAreaAnimating,
                   itemPositions, sortDragOverIndex, insertPosition,
                   pendingTimers>>

\* dragenter on the right area itself
areaDragEnter ==
    /\ sortGesture = "dragging"
    /\ insertPosition' = Len(rightItems)
    /\ UNCHANGED <<leftItems, rightItems, dragState, isAnimating,
                   isAreaAnimating, itemPositions, sortDragOverIndex,
                   draggingItem, sortGesture, pendingTimers>>

\* dragenter on the element at index: its own handler, then the area's
elementDragEnter(index) ==
    /\ sortGesture = "dragging"
    /\ index \in 0..(Len(rightItems) - 1)
    /\ sortDragOverIndex' = index
    /\ insertPosition' = Len(rightItems)
    /\ UNCHANGED <<leftItems, rightItems, dragState, isAnimating,
                   isAreaAnimating, itemPositions, draggingItem, sortGesture,
                   pendingTimers>>

\* dragover on the right area itself: handleDragOver(e)
handleDragOverArea(clientX) ==
    /\ sortGesture = "dragging"
    /\ insertPosition' = areaInsertAt(clientX - rightAreaRect.left,
                                      rightAreaRect.width, Len(rightItems))
    /\ UNCHANGED <<leftItems, rightItems, dragState, isAnimating,
                   isAreaAnimating, itemPositions, sortDragOverIndex,
                   draggingItem, sortGesture, pendingTimers>>

\* dragover on the element at index: handleDragOver(e, index), then, as the
\* event bubbles, the area's handleDragOver(e), whose setInsertPosition is
\* the one that stands
handleDragOverElement(index, x, clientX) ==
    /\ sortGesture = "dragging"
    /\ index \in 0..(Len(rightItems) - 1)
    /\ sortDragOverIndex' = index
    /\ LET insertAt == elementInsertAt(x, elementWidth, index)
           bubbled == areaInsertAt(clientX - rightAreaRect.left,
                                   rightAreaRect.width, Len(rightItems))
       IN  insertPosition' = IF TRUE THEN bubbled ELSE insertAt
    /\ UNCHANGED <<leftItems, rightItems, dragState, isAnimating,
                   isAreaAnimating, itemPositions, draggingItem, sortGesture,
                   pendingTimers>>

\* dragleave on the area, or on an element (setDragOverIndex(null)) and then,
\* bubbling, on the area: handleDragLeave
handleDragLeave ==
    /\ sortGesture = "dragging"
    /\ dragState' = [dragState EXCEPT !.draggedOverId = NoItem]
    /\ sortDragOverIndex' = NoIndex
    /\ insertPosition' = NoIndex
    /\ UNCHANGED <<leftItems, rightItems, isAnimating, isAreaAnimating,
                   itemPositions, draggingItem, sortGesture, pendingTimers>>

\* handleDrop from the point where insertIndex has been chosen (raw)
handleDrop(raw) ==
    LET draggedItem == dragState.draggedItem
        sourceArea == dragState.sourceArea
        insertIndex == Max(0, Min(raw, Len(rightItems)))
        currentIndex == findIndex(rightItems, draggedItem)
    IN
    /\ sortGesture = "dragging"
    /\ draggedItem # NoItem
    /\ sortGesture' = "dropped"
    /\ rightItems' = dropRightItems(rightItems, draggedItem, sourceArea, raw)
    /\ IF ~shouldReorder(rightItems, draggedItem, sourceArea, insertIndex)
       THEN /\ dragState' = noDrag
            /\ UNCHANGED <<leftItems, isAnimating, isAreaAnimating,
                           itemPositions, sortDragOverIndex, insertPosition,
                           draggingItem, pendingTimers>>
       ELSE /\ itemPositions' = newItemPositions(rightItems, draggedItem,
                                                 sourceArea, insertIndex)
            /\ isAnimating' = TRUE
            /\ isAreaAnimating' = TRUE
            /\ IF sourceArea = "right" /\ currentIndex = -1
               THEN UNCHANGED <<leftItems, dragState, sortDragOverIndex,
                                insertPosition, draggingItem, pendingTimers>>
               ELSE /\ leftItems' = IF sourceArea = "left"
                                    THEN filterOut(leftItems, draggedItem)
                                    ELSE leftItems
                    /\ pendingTimers < MaxTimers
                    /\ pendingTimers' = pendingTimers + 1
                    /\ dragState' = noDrag
                    /\ sortDragOverIndex' = NoIndex
                    /\ insertPosition' = NoIndex
                    /\ draggingItem' = NoItem

\* drop on the element at index (the element stops the propagation)
handleDropElement(index) ==
    /\ index \in 0..(Len(rightItems) - 1)
    /\ handleDrop(index)

\* drop on the right area itself
handleDropArea(clientX) ==
    handleDrop(areaDropIndex(clientX - rightAreaRect.left, rightAreaRect.width,
                             Len(rightItems)))

\* dragend on the dragged item: after the drop, or alone when the drag is
\* abandoned.  After a drop from the left list the item's node is gone and the
\* handler finds everything cleared already.
handleDragEnd ==
    /\ sortGesture \in {"dragging", "dropped"}
    /\ sortGesture' = "none"
    /\ dragState' = noDrag
    /\ sortDragOverIndex' = NoIndex
    /\ insertPosition' = NoIndex
    /\ draggingItem' = NoItem
    /\ UNCHANGED <<leftItems, rightItems, isAnimating, isAreaAnimating,
                   itemPositions, pendingTimers>>

\* variant: a callback that also ends the drag in progress
dropTimeoutEndsDrag ==
    /\ pendingTimers > 0
    /\ pendingTimers' = pendingTimers - 1
    /\ isAnimating' = FALSE
    /\ isAreaAnimating' = FALSE
    /\ itemPositions' = <<>>
    /\ dragState' = noDrag
    /\ draggingItem' = NoItem
    /\ UNCHANGED <<leftItems, rightItems, sortDragOverIndex, insertPosition,
                   sortGesture>>

\* the setTimeout(..., 500) callback of handleDrop
dropTimeout ==
    /\ pendingTimers > 0
    /\ pendingTimers' = pendingTimers - 1
    /\ isAnimating' = FALSE
    /\ isAreaAnimating' = FALSE
    /\ itemPositions' = <<>>
    /\ UNCHANGED <<leftItems, rightItems, dragState, sortDragOverIndex,
                   insertPosition, draggingItem, sortGesture>>

\* the reset button's onClick
resetSort ==
    /\ sortGesture = "none"
    /\ leftItems' = COLORS
    /\ rightItems' = <<>>
    /\ UNCHANGED <<dragState, isAnimating, isAreaAnimating, itemPositions,
                   sortDragOverIndex, insertPosition, draggingItem,
                   sortGesture, pendingTimers>>

(***************************************************************************)
(* PALETTE PAGE (FabricPage): the reorder of handleObjectMoved.            *)
(***************************************************************************)
\* the array handleObjectMoved hands to setCanvasSquares when the moved square
\* is released nearest to slot clampedIndex (squares unchanged when it sets
\* nothing)
handleObjectMovedSplice(squares, pos, movedSquare, clampedIndex) ==
    LET currentIndex == findIndex(squares, movedSquare)
    IN  IF clampedIndex # pos[movedSquare] /\ currentIndex # -1
        THEN spliceInsert(spliceRemove(squares, currentIndex), clampedIndex,
                          movedSquare)
        ELSE squares

\* the palette entries
SQUARE_CONFIGS == <<"1", "2", "3", "4", "5", "6">>

\* palette entries dragged
MaxConfigs == 1

\* squares dropped on the palette page's canvas over a run
MaxPaletteDrops == 3

VARIABLES
    paletteCanvasSquares,  \* canvasSquares: the squares' ids in order
    paletteConfig,         \* id -> config of the square
    palettePosition,       \* id -> position field of the square
    paletteLeft,           \* id -> left of the square's fabricObject
    paletteDraggedSquare,  \* draggedSquare: the palette entry being dragged
    isDraggingInCanvas,
    draggedCanvasSquare,
    mouseDownSees,         \* id -> the isDraggingInCanvas of the render in which
                           \* the square was dropped, the one the mousedown
                           \* listener of its rectangle closes over
    paletteGesture,        \* "none", "palette" (HTML drag under way), "dropped"
                           \* (dropped, dragend to come), "pressed" (pointer
                           \* down on the canvas)
    pressedSquare,         \* the square the pointer went down on
    pressedMoved,          \* whether it has been moved since
    paletteNow,            \* squares dropped so far
    lastEvent              \* what the last canvas click or release found and did

paletteVars ==
    <<paletteCanvasSquares, paletteConfig, palettePosition, paletteLeft,
      paletteDraggedSquare, isDraggingInCanvas, draggedCanvasSquare,
      mouseDownSees, paletteGesture, pressedSquare, pressedMoved, paletteNow,
      lastEvent>>

NoSquare == "null"
NoConfig == "null"

\* `canvas-${Date.now()}-${Math.random()}` of the n-th drop
paletteId(n) == <<"canvas-1", "canvas-2", "canvas-3", "canvas-4", "canvas-5">>[n]

\* obj.left values the pointer drags a rectangle to
PaletteLefts == {50, 130, 900}

noEvent ==
    [kind |-> "none", square |-> NoSquare, slot |-> -1, positionBefore |-> -1,
     selecting |-> FALSE, selected |-> NoSquare, before |-> <<>>]

\* The listeners of canvas.on(...) are registered once, by the effect with no
\* dependencies that runs after the first render.  handleCanvasClick and
\* handleObjectMoved are the functions of that render for the life of the
\* page, and the state they read is the state of that render.
mountCanvasSquares == <<>>
mountIsDraggingInCanvas == FALSE
mountDraggedCanvasSquare == NoSquare

paletteCalculateSquarePosition(index, squareSize) ==
    50 + index * (squareSize + 20)

\* rearrangeSquares of a render whose canvasSquares is squares: the lefts ...
paletteRearrangeLefts(squares, lefts) ==
    [id \in DOMAIN lefts |->
        IF findIndex(squares, id) # -1
        THEN paletteCalculateSquarePosition(findIndex(squares, id), 60)
        ELSE lefts[id]]

\* ... and the position fields it leaves
paletteRearrangePositions(squares, pos) ==
    [id \in DOMAIN pos |->
        IF findIndex(squares, id) # -1 THEN findIndex(squares, id) ELSE pos[id]]

\* the slot handleObjectMoved computes for a rectangle released at currentX
\* among count squares
paletteClampedIndex(currentX, count) ==
    Max(0, Min(count - 1, FloorPlusHalf(currentX - 50, 60 + 20)))

\* handleObjectMoved of a render whose canvasSquares is squares: whether the
\* moved rectangle is one of them, whether setCanvasSquares is called, and
\* with what
paletteHandleObjectMoved(squares, pos, movedObject, currentX) ==
    IF findIndex(squares, movedObject) = -1
    THEN [found |-> FALSE, set |-> FALSE, squares |-> squares]
    ELSE LET clampedIndex == paletteClampedIndex(currentX, Len(squares))
         IN  [found |-> TRUE,
              set |-> clampedIndex # pos[movedObject],
              squares |-> handleObjectMovedSplice(squares, pos, movedObject,
                                                  clampedIndex)]

swapSquarePositions(squares, square1, square2) ==
    LET index1 == findIndex(squares, square1)
        index2 == findIndex(squares, square2)
    IN  IF index1 # -1 /\ index2 # -1
        THEN [i \in 1..Len(squares) |->
                 IF i = index1 + 1 THEN squares[index2 + 1]
                 ELSE IF i = index2 + 1 THEN squares[index1 + 1]
                 ELSE squares[i]]
        ELSE squares

\* handleCanvasClick of a render whose state is (selecting, selected,
\* squares): whether it goes past its first line, and the array it leaves
paletteHandleCanvasClick(selecting, selected, squares, target) ==
    IF ~selecting \/ selected = NoSquare
    THEN [handled |-> FALSE, squares |-> squares]
    ELSE [handled |-> TRUE,
          squares |-> IF target # NoSquare /\ target # selected
                         /\ findIndex(squares, target) # -1
                      THEN swapSquarePositions(squares, selected, target)
                      ELSE squares]

PaletteInit ==
    /\ paletteCanvasSquares = <<>>
    /\ paletteConfig = <<>>
    /\ palettePosition = <<>>
    /\ paletteLeft = <<>>
    /\ paletteDraggedSquare = NoConfig
    /\ isDraggingInCanvas = FALSE
    /\ draggedCanvasSquare = NoSquare
    /\ mouseDownSees = <<>>
    /\ paletteGesture = "none"
    /\ pressedSquare = NoSquare
    /\ pressedMoved = FALSE
    /\ paletteNow = 0
    /\ lastEvent = noEvent

\* dragstart on a palette entry
paletteHandleDragStart(square) ==
    /\ paletteGesture = "none"
    /\ paletteGesture' = "palette"
    /\ paletteDraggedSquare' = square
    /\ lastEvent' = noEvent
    /\ UNCHANGED <<paletteCanvasSquares, paletteConfig, palettePosition,
                   paletteLeft, isDraggingInCanvas, draggedCanvasSquare,
                   mouseDownSees, pressedSquare, pressedMoved, paletteNow>>

\* drop on the canvas container: handleCanvasDrop, then the effect on
\* canvasSquares.length, which runs the new render's rearrangeSquares(false)
handleCanvasDrop ==
    /\ paletteGesture = "palette"
    /\ paletteDraggedSquare # NoConfig
    /\ paletteNow < MaxPaletteDrops
    /\ LET id == paletteId(paletteNow + 1)
           newSquares == Append(paletteCanvasSquares, id)
           ids == elements(newSquares)
       IN  /\ paletteCanvasSquares' = newSquares
           /\ paletteConfig' = [s \in ids |-> IF s = id THEN paletteDraggedSquare
                                              ELSE paletteConfig[s]]
           /\ palettePosition' =
                  paletteRearrangePositions(newSquares, [s \in ids |-> Len(paletteCanvasSquares)])
           /\ paletteLeft' =
                  paletteRearrangeLefts(newSquares, [s \in ids |-> 0])
           /\ mouseDownSees' = [s \in ids |-> IF s = id THEN isDraggingInCanvas
                                              ELSE mouseDownSees[s]]
    /\ paletteNow' = paletteNow + 1
    /\ paletteDraggedSquare' = NoConfig
    /\ paletteGesture' = "dropped"
    /\ lastEvent' = noEvent
    /\ UNCHANGED <<isDraggingInCanvas, draggedCanvasSquare, pressedSquare,
                   pressedMoved>>

\* dragend on the palette entry
paletteHandleDragEnd ==
    /\ paletteGesture \in {"palette", "dropped"}
    /\ paletteGesture' = "none"
    /\ paletteDraggedSquare' = NoConfig
    /\ lastEvent' = noEvent
    /\ UNCHANGED <<paletteCanvasSquares, paletteConfig, palettePosition,
                   paletteLeft, isDraggingInCanvas, draggedCanvasSquare,
                   mouseDownSees, pressedSquare, pressedMoved, paletteNow>>

\* pointer down on the canvas, on the rectangle of target or on a blank area
\* (NoSquare).  Fabric fires the canvas's mouse:down, whose listener is the
\* handleCanvasClick of the first render, and then the rectangle's mousedown,
\* whose listener is the handleSquareMouseDown of the render the square was
\* dropped in.  The rearrangeSquares(true) that swapSquarePositions defers is
\* the one of the same first render.
paletteMouseDown(target) ==
    /\ paletteGesture = "none"
    /\ target \in elements(paletteCanvasSquares) \cup {NoSquare}
    /\ LET click == paletteHandleCanvasClick(mountIsDraggingInCanvas,
                                             mountDraggedCanvasSquare,
                                             mountCanvasSquares, target)
           selects == target # NoSquare /\ ~mouseDownSees[target]
       IN  /\ paletteCanvasSquares' = IF click.handled THEN click.squares
                                      ELSE paletteCanvasSquares
           /\ isDraggingInCanvas' = IF target # NoSquare /\ selects THEN TRUE
                                    ELSE IF click.handled THEN FALSE
                                    ELSE isDraggingInCanvas
           /\ draggedCanvasSquare' = IF target # NoSquare /\ selects THEN target
                                     ELSE IF click.handled THEN NoSquare
                                     ELSE draggedCanvasSquare
           /\ paletteLeft' = IF click.handled
                             THEN paletteRearrangeLefts(mountCanvasSquares, paletteLeft)
                             ELSE paletteLeft
           /\ palettePosition' = IF click.handled
                                 THEN paletteRearrangePositions(mountCanvasSquares,
                                                                palettePosition)
                                 ELSE palettePosition
    /\ lastEvent' = [kind |-> "click", square |-> target, slot |-> -1,
                     positionBefore |-> -1,
                     selecting |-> isDraggingInCanvas,
                     selected |-> draggedCanvasSquare,
                     before |-> paletteCanvasSquares]
    /\ paletteGesture' = "pressed"
    /\ pressedSquare' = target
    /\ pressedMoved' = FALSE
    /\ UNCHANGED <<paletteConfig, paletteDraggedSquare, mouseDownSees,
                   paletteNow>>

\* object:moving: Fabric has put the pressed rectangle at left, the handler
\* clamps it
paletteHandleObjectMoving(left) ==
    /\ paletteGesture = "pressed"
    /\ pressedSquare # NoSquare
    /\ paletteLeft' = [paletteLeft EXCEPT
                          ![pressedSquare] = Max(0, Min(800 - 60, left))]
    /\ pressedMoved' = TRUE
    /\ lastEvent' = noEvent
    /\ UNCHANGED <<paletteCanvasSquares, paletteConfig, palettePosition,
                   paletteDraggedSquare, isDraggingInCanvas,
                   draggedCanvasSquare, mouseDownSees, paletteGesture,
                   pressedSquare, paletteNow>>

\* pointer up.  After a move Fabric fires object:modified, whose listener is
\* the handleObjectMoved of the first render; its rearrangeSquares is the one
\* of that render too.
paletteMouseUp ==
    /\ paletteGesture = "pressed"
    /\ paletteGesture' = "none"
    /\ pressedSquare' = NoSquare
    /\ pressedMoved' = FALSE
    /\ IF pressedMoved
       THEN LET moved == paletteHandleObjectMoved(mountCanvasSquares,
                                                  palettePosition, pressedSquare,
                                                  paletteLeft[pressedSquare])
            IN  /\ paletteCanvasSquares' = IF moved.set THEN moved.squares
                                           ELSE paletteCanvasSquares
                /\ paletteLeft' = IF moved.found
                                  THEN paletteRearrangeLefts(mountCanvasSquares,
                                                             paletteLeft)
                                  ELSE paletteLeft
                /\ palettePosition' = IF moved.found
                                      THEN paletteRearrangePositions(mountCanvasSquares,
                                                                     palettePosition)
                                      ELSE palettePosition
                /\ lastEvent' =
                       [kind |-> "release", square |-> pressedSquare,
                        slot |-> paletteClampedIndex(paletteLeft[pressedSquare],
                                                     Len(paletteCanvasSquares)),
                        positionBefore |-> palettePosition[pressedSquare],
                        selecting |-> isDraggingInCanvas,
                        selected |-> draggedCanvasSquare,
                        before |-> paletteCanvasSquares]
       ELSE UNCHANGED <<paletteCanvasSquares, paletteLeft, palettePosition,
                        lastEvent>>
    /\ UNCHANGED <<paletteConfig, paletteDraggedSquare, isDraggingInCanvas,
                   draggedCanvasSquare, mouseDownSees, paletteNow>>

\* the clear button's onClick, a handler of the current render
paletteClearCanvas ==
    /\ paletteGesture = "none"
    /\ paletteCanvasSquares' = <<>>
    /\ paletteConfig' = <<>>
    /\ palettePosition' = <<>>
    /\ paletteLeft' = <<>>
    /\ mouseDownSees' = <<>>
    /\ isDraggingInCanvas' = FALSE
    /\ draggedCanvasSquare' = NoSquare
    /\ lastEvent' = noEvent
    /\ UNCHANGED <<paletteDraggedSquare, paletteGesture, pressedSquare,
                   pressedMoved, paletteNow>>

(***************************************************************************)
(* DRAW-CALCULATOR PAGE (FabricCalcPage).                                  *)
(***************************************************************************)
VARIABLES
    drawRecords,       \* the records: functionName, params, id and the x1, y1
                       \* of the record's fabricObject (0 for a Group)
    drawIsDragging,    \* isDragging
    draggedFunction,
    drawGesture,       \* "none", "dragging", "dropped" (dragend to come)
    drawNow,           \* drops made so far
    lastDrop           \* what the last drop was: the function, the drop
                       \* point and the number of records before it

drawVars ==
    <<drawRecords, drawIsDragging, draggedFunction, drawGesture, drawNow,
      lastDrop>>

\* drops on the calculator's canvas over a run
MaxDrawDrops == 2

NoFunction == "null"

\* getDrawFunctions(): name is execute.name
getDrawFunctions ==
    <<"drawHorizontalLine", "drawVerticalLine", "drawDiagonalLine",
      "drawDashedLine", "drawAll">>

\* canvasRef.current.getBoundingClientRect(): where the layout puts the canvas
drawCanvasRect == [left |-> 500, top |-> 200]

DrawClientXs == {drawCanvasRect.left + d : d \in {40, 300}}
DrawClientYs == {drawCanvasRect.top + d : d \in {25}}

\* left and top of an object after it has been moved on the canvas
DrawMovedTo == {<<10, 60>>}

noDrop == [function |-> NoFunction, x |-> -1, y |-> -1, before |-> -1]

\* variant of the switch with no default branch
customParamsNoDefault(name, dropX, dropY) == [x |-> dropX, y |-> dropY]

\* customParams of handleCanvasDrop: the switch on draggedFunction.name
customParams(name, dropX, dropY) ==
    IF name \in {"drawHorizontalLine", "drawVerticalLine", "drawDiagonalLine",
                 "drawDashedLine"}
    THEN [x |-> dropX, y |-> dropY]
    ELSE [x |-> 0, y |-> 0]

\* the record executeDrawFunction appends; the lines are Line objects made
\* from (params.x, params.y), drawAll returns a Group, which has no x1, y1
executeDrawFunction(records, name, params, n) ==
    Append(records,
           [id |-> <<n, name>>, functionName |-> name, params |-> params,
            x1 |-> IF name = "drawAll" THEN 0 ELSE params.x,
            y1 |-> IF name = "drawAll" THEN 0 ELSE params.y])

\* getCombinedCodePlain: one call per record, the function's name and the
\* JSON of its params
getCombinedCodePlain(records) ==
    [i \in 1..Len(records) |->
        <<records[i].functionName, "(", <<"x", records[i].params.x>>,
          <<"y", records[i].params.y>>, ");">>]

DrawInit ==
    /\ drawRecords = <<>>
    /\ drawIsDragging = FALSE
    /\ draggedFunction = NoFunction
    /\ drawGesture = "none"
    /\ drawNow = 0
    /\ lastDrop = noDrop

\* dragstart on a function of the palette
drawHandleDragStart(drawFunction) ==
    /\ drawGesture = "none"
    /\ drawGesture' = "dragging"
    /\ drawIsDragging' = TRUE
    /\ draggedFunction' = drawFunction
    /\ lastDrop' = noDrop
    /\ UNCHANGED <<drawRecords, drawNow>>

\* dragend on the function of the palette
drawHandleDragEnd ==
    /\ drawGesture \in {"dragging", "dropped"}
    /\ drawGesture' = "none"
    /\ drawIsDragging' = FALSE
    /\ draggedFunction' = NoFunction
    /\ UNCHANGED <<drawRecords, drawNow, lastDrop>>

\* drop on the canvas container: handleCanvasDrop, which ends with
\* handleDragEnd()
drawHandleCanvasDrop(clientX, clientY) ==
    /\ drawGesture = "dragging"
    /\ draggedFunction # NoFunction
    /\ drawNow < MaxDrawDrops
    /\ LET dropX == clientX - drawCanvasRect.left
           dropY == clientY - drawCanvasRect.top
       IN  /\ drawRecords' =
                  executeDrawFunction(drawRecords, draggedFunction,
                                      customParams(draggedFunction, dropX, dropY),
                                      drawNow + 1)
           /\ lastDrop' = [function |-> draggedFunction, x |-> dropX,
                           y |-> dropY, before |-> Len(drawRecords)]
    /\ drawNow' = drawNow + 1
    /\ drawGesture' = "dropped"
    /\ drawIsDragging' = FALSE
    /\ draggedFunction' = NoFunction

\* the delete button of the record at index
deleteDrawRecord(index) ==
    /\ drawGesture = "none"
    /\ index \in 0..(Len(drawRecords) - 1)
    /\ drawRecords' = spliceRemove(drawRecords, index)
    /\ lastDrop' = noDrop
    /\ UNCHANGED <<drawIsDragging, draggedFunction, drawGesture, drawNow>>

\* object:modified once the object of the record at index has been moved to
\* (left, top): updateRecordParams
updateRecordParams(index, left, top) ==
    /\ drawGesture = "none"
    /\ index \in 0..(Len(drawRecords) - 1)
    /\ drawRecords' =
           [drawRecords EXCEPT
               ![index + 1].params = [x |-> drawRecords[index + 1].x1 + left,
                                      y |-> drawRecords[index + 1].y1 + top]]
    /\ lastDrop' = noDrop
    /\ UNCHANGED <<drawIsDragging, draggedFunction, drawGesture, drawNow>>

\* the clear button's onClick
drawClearCanvas ==
    /\ drawGesture = "none"
    /\ drawRecords' = <<>>
    /\ lastDrop' = noDrop
    /\ UNCHANGED <<drawIsDragging, draggedFunction, drawGesture, drawNow>>

(***************************************************************************)
(* THE SORT PAGE'S DROP ON ITS OWN.  A right area, a dragged item and a    *)
(* place under the pointer are drawn; the last dragover runs, then the     *)
(* drop.                                                                   *)
(***************************************************************************)
VARIABLES
    dropRight,     \* rightItems before the drop
    dropItem,      \* dragState.draggedItem
    dropSource,    \* dragState.sourceArea
    dropTarget,    \* index of the element under the pointer, NoIndex over
                   \* the area itself
    dropX,         \* e.clientX - rect.left on that element
    dropClientX,   \* e.clientX
    dropShown,     \* insertPosition after the last dragover
    dropInsert,    \* insertIndex of handleDrop, clamped
    dropAfter,     \* rightItems after the drop
    dropPositions, \* the itemPositions the drop wrote
    dropStep       \* 0 drawn, 1 dragged over, 2 dropped

dropVars ==
    <<dropRight, dropItem, dropSource, dropTarget, dropX, dropClientX,
      dropShown, dropInsert, dropAfter, dropPositions, dropStep>>

\* longest right area drawn
MaxDropLen == 3

\* the items a drawn right area is made of, one more than its longest length,
\* so that one is always left in the left list
DropItems == {COLORS[i] : i \in 1..(MaxDropLen + 1)}

DropSeqs ==
    UNION {{f \in [1..n -> DropItems] : \A i, j \in 1..n : f[i] = f[j] => i = j} :
           n \in 0..MaxDropLen}

DropIdle ==
    /\ dropRight = <<>>
    /\ dropItem = NoItem
    /\ dropSource = "left"
    /\ dropTarget = NoIndex
    /\ dropX = 0
    /\ dropClientX = 0
    /\ dropShown = NoIndex
    /\ dropInsert = NoIndex
    /\ dropAfter = <<>>
    /\ dropPositions = <<>>
    /\ dropStep = 0

DropInit ==
    /\ dropRight \in DropSeqs
    /\ dropItem \in DropItems
    /\ dropSource = IF dropItem \in elements(dropRight) THEN "right" ELSE "left"
    /\ dropTarget \in {NoIndex} \cup (0..(Len(dropRight) - 1))
    /\ dropX \in IF dropTarget = NoIndex THEN {0} ELSE ElementXs
    /\ dropClientX \in AreaClientXs
    /\ dropShown = NoIndex
    /\ dropInsert = NoIndex
    /\ dropAfter = dropRight
    /\ dropPositions = <<>>
    /\ dropStep = 0

\* the last dragover before the drop: over an element handleDragOver(e, index)
\* and then, bubbling, the area's handleDragOver(e); over the area itself only
\* the latter
applyHandleDragOver ==
    /\ dropStep = 0
    /\ dropStep' = 1
    /\ dropShown' = areaInsertAt(dropClientX - rightAreaRect.left,
                                 rightAreaRect.width, Len(dropRight))
    /\ UNCHANGED <<dropRight, dropItem, dropSource, dropTarget, dropX,
                   dropClientX, dropInsert, dropAfter, dropPositions>>

\* the drop: on an element handleDrop(e, index), on the area handleDrop(e)
applyHandleDropAt ==
    /\ dropStep = 1
    /\ dropStep' = 2
    /\ LET raw == IF dropTarget # NoIndex THEN dropTarget
                  ELSE areaDropIndex(dropClientX - rightAreaRect.left,
                                     rightAreaRect.width, Len(dropRight))
           insertIndex == Max(0, Min(raw, Len(dropRight)))
       IN  /\ dropInsert' = insertIndex
           /\ dropAfter' = dropRightItems(dropRight, dropItem, dropSource, raw)
           /\ dropPositions' =
                  IF shouldReorder(dropRight, dropItem, dropSource, insertIndex)
                  THEN newItemPositions(dropRight, dropItem, dropSource,
                                        insertIndex)
                  ELSE <<>>
    /\ UNCHANGED <<dropRight, dropItem, dropSource, dropTarget, dropX,
                   dropClientX, dropShown>>

(***************************************************************************)
(* THE REORDER FUNCTIONS ON THEIR OWN.  A sequence, one of its items and a *)
(* target index are drawn; the page's reorder is applied to them, and      *)
(* then applied again to take the item back.                               *)
(***************************************************************************)
VARIABLES
    lawKind,    \* which page's reorder: "grid", "sort" or "palette"
    lawOrig,    \* the sequence before the first reorder
    lawItem,    \* the item moved
    lawT,       \* the target index of the first reorder
    lawCur,     \* the sequence now
    lawPos,     \* the position fields now (grid and palette squares)
    lawBack,    \* the target index of the reorder that takes the item back
    lawSet,     \* whether the last reorder called setCanvasSquares
    lawPreview, \* the slots the drag preview gave the other squares
    lawPreviewed, \* whether the drag preview has run
    lawStep     \* reorders applied so far

lawVars ==
    <<lawKind, lawOrig, lawItem, lawT, lawCur, lawPos, lawBack, lawSet,
      lawPreview, lawPreviewed, lawStep>>

\* longest sequence drawn
MaxLawLen == 4

\* the n items of a drawn sequence: right-area items of the sort page, or
\* squares dropped on the canvas at n different times
LawItems(kind, n) ==
    IF kind = "sort" THEN {COLORS[i] : i \in 1..n}
    ELSE {<<i, "source-1">> : i \in 1..n}

\* every order of the n items
LawSeqs(kind, n) ==
    {f \in [1..n -> LawItems(kind, n)] : \A i, j \in 1..n : f[i] = f[j] => i = j}

\* index of the moved item before the first reorder
LawC == findIndex(lawOrig, lawItem)

LawIdle ==
    /\ lawKind = "none"
    /\ lawOrig = <<>>
    /\ lawItem = NoItem
    /\ lawT = NoIndex
    /\ lawCur = <<>>
    /\ lawPos = <<>>
    /\ lawBack = NoIndex
    /\ lawSet = FALSE
    /\ lawPreview = <<>>
    /\ lawPreviewed = FALSE
    /\ lawStep = 0

LawInit ==
    /\ lawKind \in {"grid", "sort", "palette"}
    /\ \E n \in 1..MaxLawLen : lawOrig \in LawSeqs(lawKind, n)
    /\ lawItem \in elements(lawOrig)
    /\ lawT \in 0..(IF lawKind = "sort" THEN Len(lawOrig) ELSE Len(lawOrig) - 1)
    /\ lawCur = lawOrig
    /\ lawPos = renumber(lawOrig)
    /\ lawBack = NoIndex
    /\ lawSet = FALSE
    /\ lawPreview = <<>>
    /\ lawPreviewed = FALSE
    /\ lawStep = 0

\* updateSquareOrder(square, t), or, at step 1, updateSquareOrder(square, c)
applyUpdateSquareOrder ==
    /\ lawKind = "grid"
    /\ lawStep < 2
    /\ LET targetIndex == IF lawStep = 0 THEN lawT ELSE LawC
           r == updateSquareOrder(lawCur, lawPos, lawItem, targetIndex)
       IN  /\ lawCur' = r.squares
           /\ lawPos' = r.position
           /\ lawSet' = r.set
           /\ lawBack' = IF lawStep = 0 THEN lawBack ELSE targetIndex
    /\ lawStep' = lawStep + 1
    /\ UNCHANGED <<lawKind, lawOrig, lawItem, lawT, lawPreview, lawPreviewed>>

\* updateSquarePositionsRealtime(t, square), as handleObjectMoving calls it
\* during the drag
applyUpdateSquarePositionsRealtime ==
    /\ lawKind = "grid"
    /\ lawStep = 0
    /\ ~lawPreviewed
    /\ lawPreview' = updateSquarePositionsRealtime(lawCur, lawPos, lawT, lawItem)
    /\ lawPreviewed' = TRUE
    /\ UNCHANGED <<lawKind, lawOrig, lawItem, lawT, lawCur, lawPos, lawBack,
                   lawSet, lawStep>>

\* handleDrop of the right-area item at insertion index t, or, at step 1, back
\* at insertion index back
applyHandleDrop(back) ==
    /\ lawKind = "sort"
    /\ lawStep < 2
    /\ lawStep = 0 => back = NoIndex
    /\ lawStep = 1 => back \in {LawC, LawC + 1}
    /\ lawCur' = dropRightItems(lawCur, lawItem, "right",
                                IF lawStep = 0 THEN lawT ELSE back)
    /\ lawBack' = back
    /\ lawStep' = lawStep + 1
    /\ UNCHANGED <<lawKind, lawOrig, lawItem, lawT, lawPos, lawSet, lawPreview,
                   lawPreviewed>>

\* handleObjectMoved releasing the square nearest to slot t
applyHandleObjectMoved ==
    /\ lawKind = "palette"
    /\ lawStep = 0
    /\ lawCur' = handleObjectMovedSplice(lawCur, lawPos, lawItem, lawT)
    /\ lawStep' = 1
    /\ UNCHANGED <<lawKind, lawOrig, lawItem, lawT, lawPos, lawBack, lawSet,
                   lawPreview, lawPreviewed>>

(***************************************************************************)
(* calculateTargetIndex ON ITS OWN: a coordinate and an item count are     *)
(* drawn and the function is applied.  It is only ever called with a       *)
(* dragged square on the canvas, hence with a count of at least one.       *)
(***************************************************************************)
VARIABLES
    calcX,      \* currentX
    calcCount,  \* totalCount ?? canvasSquares.length
    calcIndex,  \* the index returned
    calcDone    \* whether the function has been applied

calcVars == <<calcX, calcCount, calcIndex, calcDone>>

\* largest item count drawn (from nine squares on, the row is wider than the canvas)
MaxCount == 9

CalcIdle ==
    /\ calcX = 0
    /\ calcCount = 0
    /\ calcIndex = NoIndex
    /\ calcDone = FALSE

CalcInit ==
    /\ calcX \in (0 - SQUARE_WIDTH)..CANVAS_WIDTH
    /\ calcCount \in 1..MaxCount
    /\ calcIndex = NoIndex
    /\ calcDone = FALSE

applyCalculateTargetIndex ==
    /\ ~calcDone
    /\ calcIndex' = calculateTargetIndex(calcX, SQUARE_WIDTH, calcCount)
    /\ calcDone' = TRUE
    /\ UNCHANGED <<calcX, calcCount>>

(***************************************************************************)
(* calculateInsertIndex ON ITS OWN: a cursor position and a number of      *)
(* squares on the canvas are drawn and the function is applied.            *)
(***************************************************************************)
VARIABLES
    insX,       \* mouseX (e.clientX)
    insY,       \* mouseY (e.clientY)
    insN,       \* canvasSquares.length
    insIndex,   \* the index returned
    insDone     \* whether the function has been applied

insVars == <<insX, insY, insN, insIndex, insDone>>

\* most squares on the canvas when the function is applied (from eight squares
\* on, the row with the new square is wider than the canvas)
MaxInsN == 8

\* how far off the canvas the cursor positions drawn reach
InsMargin == 2

InsIdle ==
    /\ insX = 0
    /\ insY = 0
    /\ insN = 0
    /\ insIndex = NoIndex
    /\ insDone = FALSE

InsInit ==
    /\ insX \in {canvasRect.left + d : d \in (0 - InsMargin)..(CANVAS_WIDTH + InsMargin)}
    /\ insY \in {canvasRect.top + d :
                    d \in {0 - InsMargin, -1, 0, 200, CANVAS_HEIGHT,
                           CANVAS_HEIGHT + 1}}
    /\ insN \in 0..MaxInsN
    /\ insIndex = NoIndex
    /\ insDone = FALSE

applyCalculateInsertIndex ==
    /\ ~insDone
    /\ insIndex' = calculateInsertIndex(insX, insY, SQUARE_WIDTH, insN)
    /\ insDone' = TRUE
    /\ UNCHANGED <<insX, insY, insN>>

(***************************************************************************)
(* Specifications: one page runs at a time, the other pages stay as        *)
(* constructed.                                                            *)
(***************************************************************************)
vars ==
    <<gridVars, rectVars, sortVars, paletteVars, drawVars, dropVars, lawVars,
      calcVars, insVars>>

exceptGrid ==
    <<rectVars, sortVars, paletteVars, drawVars, dropVars,
      lawVars, calcVars, insVars>>
exceptRect ==
    <<sortVars, paletteVars, drawVars, dropVars, lawVars,
      calcVars, insVars>>
exceptSort ==
    <<gridVars, rectVars, paletteVars, drawVars, dropVars,
      lawVars, calcVars, insVars>>
exceptPalette ==
    <<gridVars, rectVars, sortVars, drawVars, dropVars,
      lawVars, calcVars, insVars>>
exceptLaw ==
    <<gridVars, rectVars, sortVars, paletteVars, drawVars,
      dropVars, calcVars, insVars>>
exceptCalc ==
    <<gridVars, rectVars, sortVars, paletteVars, drawVars,
      dropVars, lawVars, insVars>>
exceptDrop ==
    <<gridVars, rectVars, sortVars, paletteVars, drawVars,
      lawVars, calcVars, insVars>>
exceptDraw ==
    <<gridVars, rectVars, sortVars, paletteVars, dropVars, lawVars, calcVars,
      insVars>>
exceptIns ==
    <<gridVars, rectVars, sortVars, paletteVars, drawVars,
      dropVars, lawVars, calcVars>>

\* the pages as first rendered, no function applied on its own
PagesInit == GridInit /\ RectInit /\ SortInit /\ PaletteInit /\ DrawInit

Init == PagesInit /\ DropIdle /\ LawIdle /\ CalcIdle /\ InsIdle

GridNext ==
    \/ \E target \in {canvasSquares[i] : i \in 1..Len(canvasSquares)} \cup {Null} :
           handleMouseDown(target) /\ UNCHANGED exceptGrid
    \/ \E left \in DragLefts, inside \in BOOLEAN :
           handleObjectMoving(left, inside) /\ UNCHANGED exceptGrid
    \/ handleObjectModified /\ UNCHANGED exceptGrid
    \/ handleMouseUp /\ UNCHANGED exceptGrid
    \/ \E sourceSquare \in dragSourceSquares :
           handleExternalDragStart(sourceSquare) /\ UNCHANGED exceptGrid
    \/ \E clientX \in ClientXs, clientY \in ClientYs :
           handleExternalDragMove(clientX, clientY) /\ UNCHANGED exceptGrid
    \/ \E clientX \in ClientXs, clientY \in ClientYs :
           handleExternalDrop(clientX, clientY) /\ UNCHANGED exceptGrid
    \/ handleExternalDragEnd /\ UNCHANGED exceptGrid
    \/ clearCanvas /\ UNCHANGED exceptGrid
    \/ resetCanvas /\ UNCHANGED exceptGrid

\* pointer positions of the gestures followed down to the rectangles
RectLefts == {0, 410}
RectClientXs == {canvasRect.left + d : d \in {-1, 400}}
RectClientYs == {canvasRect.top + 200}
\* the rectangles pressed: the leftmost one, or none (Null, a blank area)
RectTargets == {canvasSquares[i] : i \in 1..Min(1, Len(canvasSquares))} \cup {Null}

\* the grid page with its rectangles and timers
RectNext ==
    \/ \E target \in RectTargets :
           handleMouseDown(target) /\ handleMouseDownRects
              /\ UNCHANGED exceptRect
    \/ \E left \in RectLefts, inside \in BOOLEAN, lands \in BOOLEAN :
           handleObjectMoving(left, inside) /\ handleObjectMovingRects(left, lands)
              /\ UNCHANGED exceptRect
    \/ handleObjectModified /\ handleObjectModifiedRects /\ UNCHANGED exceptRect
    \/ handleMouseUp /\ handleMouseUpRects /\ UNCHANGED exceptRect
    \/ \E sourceSquare \in dragSourceSquares :
           handleExternalDragStart(sourceSquare) /\ handleExternalDragStartRects
              /\ UNCHANGED exceptRect
    \/ \E clientX \in RectClientXs, clientY \in RectClientYs, lands \in BOOLEAN :
           handleExternalDragMove(clientX, clientY)
              /\ handleExternalDragMoveRects(clientX, clientY, lands)
              /\ UNCHANGED exceptRect
    \/ \E clientX \in RectClientXs, clientY \in RectClientYs,
          viaCanvas \in BOOLEAN :
           handleExternalDrop(clientX, clientY)
              /\ handleExternalDropRects(clientX, clientY, viaCanvas)
              /\ UNCHANGED exceptRect
    \/ handleExternalDragEnd /\ handleExternalDragEndRects /\ UNCHANGED exceptRect
    \/ clearCanvas /\ clearCanvasRects /\ UNCHANGED exceptRect
    \/ resetCanvas /\ resetCanvasRects /\ UNCHANGED exceptRect
    \/ rearrangeTimeout /\ UNCHANGED exceptRect
    \/ animationsEnd /\ UNCHANGED exceptRect

SortNext ==
    \/ \E item \in {COLORS[i] : i \in 1..MaxDragged}, sourceArea \in {"left", "right"} :
           handleDragStart(item, sourceArea) /\ UNCHANGED exceptSort
    \/ areaDragEnter /\ UNCHANGED exceptSort
    \/ \E index \in 0..(MaxDragged - 1) : elementDragEnter(index) /\ UNCHANGED exceptSort
    \/ \E clientX \in AreaClientXs : handleDragOverArea(clientX) /\ UNCHANGED exceptSort
    \/ \E index \in 0..(MaxDragged - 1), x \in ElementXs, clientX \in AreaClientXs :
           handleDragOverElement(index, x, clientX) /\ UNCHANGED exceptSort
    \/ handleDragLeave /\ UNCHANGED exceptSort
    \/ \E index \in 0..(MaxDragged - 1) : handleDropElement(index) /\ UNCHANGED exceptSort
    \/ \E clientX \in AreaClientXs : handleDropArea(clientX) /\ UNCHANGED exceptSort
    \/ handleDragEnd /\ UNCHANGED exceptSort
    \/ dropTimeout /\ UNCHANGED exceptSort
    \/ resetSort /\ UNCHANGED exceptSort

LawNext ==
    \/ applyUpdateSquareOrder /\ UNCHANGED exceptLaw
    \/ applyUpdateSquarePositionsRealtime /\ UNCHANGED exceptLaw
    \/ \E back \in {NoIndex} \cup 0..MaxLawLen :
           applyHandleDrop(back) /\ UNCHANGED exceptLaw
    \/ applyHandleObjectMoved /\ UNCHANGED exceptLaw

CalcNext ==
    applyCalculateTargetIndex /\ UNCHANGED exceptCalc

GridSpec == Init /\ [][GridNext]_vars

RectSpec == Init /\ [][RectNext]_vars

SortSpec == Init /\ [][SortNext]_vars

PaletteNext ==
    \/ \E i \in 1..MaxConfigs :
           paletteHandleDragStart(SQUARE_CONFIGS[i]) /\ UNCHANGED exceptPalette
    \/ handleCanvasDrop /\ UNCHANGED exceptPalette
    \/ paletteHandleDragEnd /\ UNCHANGED exceptPalette
    \/ \E target \in elements(paletteCanvasSquares) \cup {NoSquare} :
           paletteMouseDown(target) /\ UNCHANGED exceptPalette
    \/ \E left \in PaletteLefts :
           paletteHandleObjectMoving(left) /\ UNCHANGED exceptPalette
    \/ paletteMouseUp /\ UNCHANGED exceptPalette
    \/ paletteClearCanvas /\ UNCHANGED exceptPalette

PaletteSpec == Init /\ [][PaletteNext]_vars

DrawNext ==
    \/ \E i \in 1..Len(getDrawFunctions) :
           drawHandleDragStart(getDrawFunctions[i]) /\ UNCHANGED exceptDraw
    \/ drawHandleDragEnd /\ UNCHANGED exceptDraw
    \/ \E clientX \in DrawClientXs, clientY \in DrawClientYs :
           drawHandleCanvasDrop(clientX, clientY) /\ UNCHANGED exceptDraw
    \/ \E index \in 0..(MaxDrawDrops - 1) :
           deleteDrawRecord(index) /\ UNCHANGED exceptDraw
    \/ \E index \in 0..(MaxDrawDrops - 1), to \in DrawMovedTo :
           updateRecordParams(index, to[1], to[2]) /\ UNCHANGED exceptDraw
    \/ drawClearCanvas /\ UNCHANGED exceptDraw

DrawSpec == Init /\ [][DrawNext]_vars

InitLaw == PagesInit /\ DropIdle /\ LawInit /\ CalcIdle /\ InsIdle

LawSpec == InitLaw /\ [][LawNext]_vars

InitCalc == PagesInit /\ DropIdle /\ LawIdle /\ CalcInit /\ InsIdle

CalcSpec == InitCalc /\ [][CalcNext]_vars

InsNext ==
    applyCalculateInsertIndex /\ UNCHANGED exceptIns

InitIns == PagesInit /\ DropIdle /\ LawIdle /\ CalcIdle /\ InsInit

InsSpec == InitIns /\ [][InsNext]_vars

DropNext ==
    \/ applyHandleDragOver /\ UNCHANGED exceptDrop
    \/ applyHandleDropAt /\ UNCHANGED exceptDrop

InitDrop == PagesInit /\ DropInit /\ LawIdle /\ CalcIdle /\ InsIdle

DropSpec == InitDrop /\ [][DropNext]_vars

(***************************************************************************)
(* Properties.  The reference operators below are written from arithmetic  *)
(* and SubSeq, not from the splices of the code.                           *)
(***************************************************************************)
\* seq without its element at 0-based index c
RemoveAt(seq, c) == SubSeq(seq, 1, c) \o SubSeq(seq, c + 2, Len(seq))

\* seq with x put at 0-based index k (k at most Len(seq))
InsertAt(seq, k, x) == SubSeq(seq, 1, k) \o <<x>> \o SubSeq(seq, k + 1, Len(seq))

\* seq without the occurrences of x
without(seq, x) == SelectSeq(seq, LAMBDA y : y # x)

\* the integer nearest to n / d (d > 0), a half going up
RoundHalfUp(n, d) ==
    LET m == (IF n < 0 THEN 0 - n ELSE n) \div d + 1
    IN  CHOOSE k \in (0 - m)..m : (2 * k - 1) * d <= 2 * n /\ 2 * n < (2 * k + 1) * d

\* the four preset squares A, B, C, D
SquareA == squareConfigs[1]
SquareB == squareConfigs[2]
SquareC == squareConfigs[3]
SquareD == squareConfigs[4]

\* C1: on the grid page with [A,B,C,D], A dragged, released at left = 410 (the
\* resting x of slot 2) and committed by handleObjectModified gives [B,C,A,D].
C1_DragAToSlot2 ==
    (/\ gesture = "modified"
     /\ startSquares = <<SquareA, SquareB, SquareC, SquareD>>
     /\ draggedSquare = SquareA
     /\ objLeft = 410)
    => canvasSquares = <<SquareB, SquareC, SquareA, SquareD>>

C1_Witness ==
    /\ gesture = "modified"
    /\ startSquares = <<SquareA, SquareB, SquareC, SquareD>>
    /\ draggedSquare = SquareA
    /\ objLeft = 410
    /\ objLeft = calculateSquarePosition(2, SQUARE_WIDTH, 4)
    /\ canvasSquares = <<SquareB, SquareC, SquareA, SquareD>>

\* C2 as stated: every reorder (grid updateSquareOrder, palette
\* handleObjectMoved, sort handleDrop) removes the item and re-inserts it at
\* targetIndex, decremented by one when targetIndex is beyond the removal index.
C2_AllDecrement ==
    lawStep = 1 =>
        lawCur = InsertAt(RemoveAt(lawOrig, LawC),
                          IF lawT > LawC THEN lawT - 1 ELSE lawT, lawItem)

\* C2 amended: updateSquareOrder and handleObjectMoved re-insert the removed
\* item at targetIndex itself, with no decrement, so that it ends at index
\* targetIndex; only the right-area branch of the sort page's handleDrop
\* decrements an insertion index beyond the removal index.
C2_DecrementOnlyInSort ==
    lawStep = 1 =>
        IF lawKind = "sort"
        THEN lawCur = InsertAt(RemoveAt(lawOrig, LawC),
                               IF lawT > LawC THEN lawT - 1 ELSE lawT, lawItem)
        ELSE lawCur = InsertAt(RemoveAt(lawOrig, LawC), lawT, lawItem)

C2_Witness ==
    /\ lawStep = 1
    /\ lawKind = "grid"
    /\ Len(lawOrig) = 4
    /\ LawC = 0
    /\ lawT = 2
    /\ lawCur[3] = lawItem

\* C3: on the grid page updateSquareOrder(square, t) followed by
\* updateSquareOrder(square, c), c the square's index at the start, restores
\* canvasSquares (and the position fields), for every n >= 1 and t in [0, n-1].
C3_GridRoundTrip ==
    (lawKind = "grid" /\ lawStep = 2) =>
        /\ lawCur = lawOrig
        /\ lawPos = [id \in elements(lawOrig) |-> findIndex(lawOrig, id)]

C3_Witness ==
    /\ lawKind = "grid"
    /\ lawStep = 2
    /\ Len(lawOrig) = 3
    /\ LawC = 2
    /\ lawT = 0
    /\ lawBack = 2
    /\ lawCur = lawOrig

\* C4 as stated: on the sort page, dropping a right-area item at insertion
\* index t in [0, length] and then back at its original index c restores
\* rightItems.
C4_SortRoundTrip ==
    (lawKind = "sort" /\ lawStep = 2 /\ lawBack = LawC) => lawCur = lawOrig

\* C4 amended: dropping the item at insertion index t and then back at its
\* original index c restores rightItems exactly when t >= c; after a drop at
\* t < c it is the drop back at insertion index c + 1 that restores rightItems.
C4_SortRoundTripForward ==
    (lawKind = "sort" /\ lawStep = 2) =>
        /\ lawBack = LawC => (lawCur = lawOrig <=> lawT >= LawC)
        /\ (lawBack = LawC + 1 /\ lawT < LawC) => lawCur = lawOrig

C4_Witness ==
    /\ lawKind = "sort"
    /\ lawStep = 2
    /\ Len(lawOrig) = 3
    /\ LawC = 2
    /\ lawT = 0
    /\ lawBack = 2
    /\ lawCur # lawOrig

C6_PositionIsIndex ==
    /\ DOMAIN position = elements(canvasSquares)
    /\ \A i \in 1..Len(canvasSquares) : position[canvasSquares[i]] = i - 1

C6_Witness ==
    /\ gesture = "none"
    /\ Len(canvasSquares) = 5
    /\ canvasSquares[3][2] \in dragSourceSquares
    /\ canvasSquares[1] # SquareA
    /\ position[canvasSquares[5]] = 4

\* C7: on the sort page no id is in both lists or twice in one, and the two
\* lists together hold exactly the eight initial items.
C7_EightItemsOnce ==
    LET all == leftItems \o rightItems IN
    /\ \A i, j \in 1..Len(all) : all[i] = all[j] => i = j
    /\ elements(all) = elements(COLORS)
    /\ Len(all) = 8

C7_Witness ==
    /\ sortGesture = "none"
    /\ rightItems = <<COLORS[3], COLORS[1], COLORS[2]>>
    /\ Len(leftItems) = 5

\* C8: once a gesture has ended (mouse:up; drop or dragend) all drag state is
\* cleared, on the grid page and on the sort page.
C8_DragStateCleared ==
    /\ gesture \in {"none", "dropped"} =>
          /\ isDragging = FALSE
          /\ draggedSquare = Null
          /\ isExternalDragging = FALSE
          /\ draggedSourceSquare = NoSource
          /\ dragOverIndex = -1
    /\ sortGesture \in {"none", "dropped"} =>
          /\ dragState.draggedItem = NoItem
          /\ draggingItem = NoItem
          /\ insertPosition = NoIndex
          /\ sortDragOverIndex = NoIndex

\* C9: calculateTargetIndex returns an index in [0, count - 1] for every item
\* count and every coordinate of the container.
C9_TargetIndexInBounds ==
    calcDone => calcIndex \in 0..(calcCount - 1)

C9_Witness ==
    /\ calcDone
    /\ calcCount = 4
    /\ calcX = CANVAS_WIDTH
    /\ calcIndex = 3

\* C10: calculateTargetIndex is round((c - startOffset - size/2) /
\* (size + spacing)) clamped to [0, count - 1], c = currentX + size/2, a half
\* going up.  Numerator and denominator are doubled to stay whole.
C10_TargetIndexFormula ==
    calcDone =>
        LET size == SQUARE_WIDTH
            spacing == 20
            c2 == 2 * calcX + size
            startOffset2 ==
                800 - (calcCount * size + (calcCount - 1) * spacing)
            rounded == RoundHalfUp(c2 - startOffset2 - size,
                                   2 * (size + spacing))
        IN  calcIndex = IF rounded < 0 THEN 0
                        ELSE IF rounded > calcCount - 1 THEN calcCount - 1
                        ELSE rounded

C10_Witness ==
    /\ calcDone
    /\ calcCount = 4
    /\ calcX = 260
    /\ calcIndex = 1

\* the cursor's canvas-relative position when calculateInsertIndex is applied
InsCanvasX == insX - canvasRect.left
InsCanvasY == insY - canvasRect.top

\* whether that position lies inside [0, 800] x [0, 400]
InsInside ==
    /\ 0 <= InsCanvasX /\ InsCanvasX <= 800
    /\ 0 <= InsCanvasY /\ InsCanvasY <= 400

\* twice the centring offset of a row of count squares of size 80, spacing 20
StartOffset2(count) == 800 - (count * 80 + (count - 1) * 20)

\* v clamped to [lo, hi]
Clamp(v, lo, hi) == IF v < lo THEN lo ELSE IF v > hi THEN hi ELSE v

\* C11 as stated: for a cursor inside the canvas over n squares,
\* calculateInsertIndex is round((cursorX - startOffset - size/2) /
\* (size + spacing)) clamped to [0, n], startOffset computed for n + 1 items.
C11_InsertIndexCentreFormula ==
    (insDone /\ InsInside) =>
        insIndex = Clamp(RoundHalfUp(2 * InsCanvasX - StartOffset2(insN + 1) - 80,
                                     2 * (80 + 20)), 0, insN)

\* C11 amended: for a cursor inside the canvas over n squares,
\* calculateInsertIndex is round((cursorX - startOffset) / (size + spacing))
\* clamped to [0, n], a half going up: half a size is not subtracted.
C11_InsertIndexFormula ==
    (insDone /\ InsInside) =>
        insIndex = Clamp(RoundHalfUp(2 * InsCanvasX - StartOffset2(insN + 1),
                                     2 * (80 + 20)), 0, insN)

C11_Witness ==
    /\ insDone
    /\ InsInside
    /\ insN = 4
    /\ InsCanvasX = 220
    /\ insIndex = 1

\* C12: calculateInsertIndex returns -1 exactly when the cursor's
\* canvas-relative position is outside [0, 800] x [0, 400]; inside, it returns
\* an index in [0, n].
C12_SentinelIffOutside ==
    insDone =>
        /\ insIndex = -1 <=> ~InsInside
        /\ InsInside => insIndex \in 0..insN

C12_Witness ==
    /\ insDone
    /\ InsCanvasX = 801
    /\ InsCanvasY = 200
    /\ insIndex = -1

\* C13: with canvasSquares empty, a palette drop at any point inside the
\* canvas computes insertion index 0 and leaves canvasSquares = [X] with
\* X.position = 0.
C13_DropOnEmptyCanvas ==
    /\ (gesture = "external" /\ canvasSquares = <<>> /\ dragOverIndex # -1)
          => dragOverIndex = 0
    /\ (gesture = "dropped" /\ startSquares = <<>> /\ pointerInCanvas) =>
          /\ Len(canvasSquares) = 1
          /\ canvasSquares[1][2] \in dragSourceSquares
          /\ DOMAIN position = {canvasSquares[1]}
          /\ position[canvasSquares[1]] = 0

C13_Witness ==
    /\ gesture = "dropped"
    /\ startSquares = <<>>
    /\ pointerInCanvas
    /\ Len(canvasSquares) = 1
    /\ position[canvasSquares[1]] = 0

\* C14: updateSquareOrder with targetIndex equal to the square's current index
\* is a no-op: same order, same position values, no setCanvasSquares.
C14_ReorderToOwnIndex ==
    (lawKind = "grid" /\ lawStep = 1 /\ lawT = LawC) =>
        /\ lawCur = lawOrig
        /\ lawPos = [id \in elements(lawOrig) |-> findIndex(lawOrig, id)]
        /\ ~lawSet

C14_Witness ==
    /\ lawKind = "grid"
    /\ lawStep = 1
    /\ Len(lawOrig) = 3
    /\ lawT = 1
    /\ LawC = 1
    /\ lawCur = lawOrig
    /\ ~lawSet

\* C20: on the grid page updateSquareOrder returns, for n >= 1 squares, a
\* member square and t in [0, n-1], a sequence of the same length with the
\* same squares, the moved square at index t and the others in their
\* original relative order.
C20_MovedToTarget ==
    (lawKind = "grid" /\ lawStep = 1) =>
        /\ Len(lawCur) = Len(lawOrig)
        /\ elements(lawCur) = elements(lawOrig)
        /\ lawCur[lawT + 1] = lawItem
        /\ without(lawCur, lawItem) = without(lawOrig, lawItem)

C20_Witness ==
    /\ lawKind = "grid"
    /\ lawStep = 1
    /\ Len(lawOrig) = 4
    /\ LawC = 3
    /\ lawT = 1
    /\ lawCur[2] = lawItem
    /\ lawSet

\* C15: with provisional target index t, the slot updateSquarePositionsRealtime
\* gives each non-dragged square is that square's index in the sequence
\* updateSquareOrder produces for t, so exactly slot t stays free; the preview
\* changes neither canvasSquares nor the position fields.
C15_PreviewMatchesCommit ==
    (lawKind = "grid" /\ lawPreviewed) =>
        /\ DOMAIN lawPreview = elements(lawOrig) \ {lawItem}
        /\ lawStep = 0 =>
              /\ lawCur = lawOrig
              /\ lawPos = [id \in elements(lawOrig) |-> findIndex(lawOrig, id)]
        /\ lawStep = 1 =>
              /\ \A id \in DOMAIN lawPreview : lawPreview[id] = findIndex(lawCur, id)
              /\ {lawPreview[id] : id \in DOMAIN lawPreview}
                    = (0..(Len(lawOrig) - 1)) \ {lawT}

C15_Witness ==
    /\ lawKind = "grid"
    /\ lawPreviewed
    /\ lawStep = 1
    /\ Len(lawOrig) = 4
    /\ LawC = 0
    /\ lawT = 2
    /\ lawPreview[lawOrig[3]] = 1
    /\ lawPreview[lawOrig[4]] = 3

\* C16: on the grid page, once a drag is released or a palette drop is done
\* and every pending timer and animation has run, each square rests at
\* x = calculateSquarePosition(its index in canvasSquares, size, length),
\* whatever events were processed before the timers fired.
C16_SquaresRestInRow ==
    (gesture = "none" /\ rearrangeTimers = <<>> /\ ~animating) =>
        \A i \in 1..Len(canvasSquares) :
            /\ canvasSquares[i] \in DOMAIN restLeft
            /\ 2 * restLeft[canvasSquares[i]] =
                  StartOffset2(Len(canvasSquares)) + 2 * (i - 1) * (80 + 20)

\* C17 as stated: no handler leaves deferred work that changes page state
\* after a later event has been processed.  On the sort page: a timer
\* callback that runs once the dragend after its drop (or anything later) has
\* been processed changes nothing of isAnimating, isAreaAnimating and
\* itemPositions.
C17_NoDeferredWork ==
    [][(pendingTimers' < pendingTimers /\ sortGesture # "dropped") =>
          UNCHANGED <<isAnimating, isAreaAnimating, itemPositions>>]_vars

\* C17 amended: the sort page's handleDrop leaves a timer.  Only a drop
\* creates one, and its callback, whatever events were processed in between,
\* sets isAnimating and isAreaAnimating to false, empties itemPositions and
\* changes neither the two lists nor the drag state.
C17_TimerOnlyEndsAnimation ==
    [][/\ pendingTimers' < pendingTimers =>
             /\ ~isAnimating' /\ ~isAreaAnimating' /\ itemPositions' = <<>>
             /\ UNCHANGED <<leftItems, rightItems, dragState,
                            sortDragOverIndex, insertPosition, draggingItem,
                            sortGesture>>
       /\ pendingTimers' > pendingTimers =>
             sortGesture = "dragging" /\ sortGesture' = "dropped"]_vars

\* a timer of an earlier drop is still pending while the next drag is under
\* way
C17_Witness ==
    /\ pendingTimers > 0
    /\ sortGesture = "dragging"
    /\ dragState.draggedItem # NoItem
    /\ isAnimating

\* C18: on the palette page, after a square of the canvas has been dragged
\* and released at an x whose nearest slot differs from its position,
\* canvasSquares has the square at that slot.
C18_ReleasedSquareAtSlot ==
    (lastEvent.kind = "release" /\ lastEvent.slot # lastEvent.positionBefore) =>
        findIndex(paletteCanvasSquares, lastEvent.square) = lastEvent.slot

\* C19: on the palette page a canvas click made in selection mode ends the
\* selection mode; on a different square it exchanges the two squares'
\* indices, on a blank area it leaves the order as it was.
C19_ClickEndsSelection ==
    (lastEvent.kind = "click" /\ lastEvent.selecting) =>
        /\ ~isDraggingInCanvas
        /\ draggedCanvasSquare = NoSquare
        /\ (lastEvent.square \notin {NoSquare, lastEvent.selected}) =>
               paletteCanvasSquares =
                   swapSquarePositions(lastEvent.before, lastEvent.selected,
                                       lastEvent.square)
        /\ lastEvent.square = NoSquare => paletteCanvasSquares = lastEvent.before

\* C21 as stated: a drop on the right-area element at index k commits
\* insertion index k when the cursor is in the left third of the element and
\* k + 1 otherwise, which is the insertPosition of the last dragover.
C21_DropWherePlaceholderShows ==
    (dropStep = 2 /\ dropTarget # NoIndex) =>
        /\ dropInsert = elementInsertAt(dropX, elementWidth, dropTarget)
        /\ dropInsert = dropShown

\* C23 as stated: when a drop changes rightItems, the itemPositions it wrote
\* gives every right-area item, the dropped one included, its index in the
\* new rightItems.
C23_ItemPositionsAreNewIndices ==
    (dropStep = 2 /\ dropAfter # dropRight) =>
        /\ DOMAIN dropPositions = elements(dropAfter)
        /\ \A id \in elements(dropAfter) :
               dropPositions[id] = findIndex(dropAfter, id)

\* C25: a drop of the right-area item at index c leaves rightItems as it was
\* exactly when the clamped insertion index is c or c + 1.
C25_NoOpIffOwnOrNextIndex ==
    (dropStep = 2 /\ dropSource = "right") =>
        (dropAfter = dropRight <=>
            dropInsert \in {findIndex(dropRight, dropItem),
                            findIndex(dropRight, dropItem) + 1})

\* drops of a right-area item before its own index, on its own index and
\* past the next one have been made
C25_Witness ==
    /\ dropStep = 2
    /\ dropSource = "right"
    /\ Len(dropRight) = 3
    /\ findIndex(dropRight, dropItem) = 1
    /\ dropInsert = 0
    /\ dropAfter # dropRight

C25_WitnessNoOp ==
    /\ dropStep = 2
    /\ dropSource = "right"
    /\ dropInsert = findIndex(dropRight, dropItem) + 1
    /\ dropAfter = dropRight

\* C22 as stated: whichever function of the palette is dropped on the
\* calculator's canvas, the drop adds exactly one record, whose params are
\* the drop point relative to the canvas, and the generated code lists that
\* call with those params.
C22_DropRecordsDropPoint ==
    lastDrop.function # NoFunction =>
        /\ Len(drawRecords) = lastDrop.before + 1
        /\ drawRecords[Len(drawRecords)].functionName = lastDrop.function
        /\ drawRecords[Len(drawRecords)].params = [x |-> lastDrop.x, y |-> lastDrop.y]
        /\ getCombinedCodePlain(drawRecords)[Len(drawRecords)] =
               <<lastDrop.function, "(", <<"x", lastDrop.x>>,
                 <<"y", lastDrop.y>>, ");">>

====
